---------------------------- MODULE Spec2Model ----------------------------
(***************************************************************************)
(* Model of the pharmacy product normalisation and bioequivalence engine:  *)
(*   src/src/modules/drug_parser.py   DrugParser.parse                     *)
(*   src/scripts/smart_match.py       normalize_text                       *)
(*   src/src/modules/data_manager.py  DataManager.load_data                *)
(*   src/motor_busqueda.py            FarmaciaVallenarEngine.buscar        *)
(*   src/src/api/main.py              get_alternatives                     *)
(*                                                                         *)
(* A Python str is a sequence of one-character strings.  Inputs are ASCII. *)
(***************************************************************************)
EXTENDS Integers, Sequences, FiniteSets, TLC

VARIABLES
    product_name,   \* DrugParser.parse: the argument, a Python value
    form,           \* <<>>, or <<the parts product_name was written from>>
    resultado,      \* DrugParser.parse: <<>> before the call, <<dict>> after it
    reparsed,       \* <<>>, or <<parse(resultado.clean_name)>>
    raw_text,       \* normalize_text: the argument, a Python value
    normalized,     \* <<>>, or <<normalize_text(raw_text)>>
    renormalized,   \* <<>>, or <<normalize_text(normalize_text(raw_text))>>
    df,             \* FarmaciaVallenarEngine.df: the rows load_data returned
    search,         \* what the last buscar(query) did; outcome "idle" before
    inventario_local,   \* the table INVENTARIO_LOCAL the API reads
    response,       \* <<>>, or <<what the last get_alternatives returned>>
    FUZZY_AVAILABLE,    \* data_manager: whether rapidfuzz was imported
    raw_row,        \* a row of the frame read_csv returned
    parsed_row,     \* <<>>, or <<the row after process_dataframe>>
    extracted,      \* _enrich_compliance: <<>>, or <<what extractOne returned>>
    best_match,     \* _enrich_compliance: its local best_match, <<>> for None
    enriched,       \* <<>>, or <<the row _enrich_compliance returned>>
    files,          \* the data files that exist: os.path.exists
    cenabast,       \* the rows of CENABAST_FILE: 'Nombre producto genérico'
    golan,          \* GOLAN_FILE as read_excel returns it: columns and rows
    catalogo_maestro,   \* the table CATALOGO_MAESTRO the pipeline fills: the
                    \* nombre_generico of each row, its id is the position
    records_to_insert,  \* load_inventario: what it inserts in INVENTARIO_LOCAL
    match_log,      \* load_inventario: per record, <<>> or <<what extractOne
                    \* returned>>
    loader,         \* how each loader called so far ended
    pc,             \* pipeline.py __main__: the call it is about to make
    dump,           \* fix_dump.process_dump: the lines of the input file,
                    \* how many were read, its locals, the output file
    recon,          \* smart_match.main: the products, how many were
                    \* processed, its counters, the transaction
    entry           \* the program that runs: "motor_busqueda", "api",
                    \* "data_manager", "pipeline", "fix_dump",
                    \* "smart_match", "none"

parserVars == <<product_name, form, resultado, reparsed>>
normVars == <<raw_text, normalized, renormalized>>
engineVars == <<df, search>>
apiVars == <<inventario_local, response>>
classifyVars ==
    <<FUZZY_AVAILABLE, raw_row, parsed_row, extracted, best_match, enriched>>
pipelineVars ==
    <<files, cenabast, golan, catalogo_maestro, records_to_insert, match_log,
      loader, pc>>
vars ==
    <<parserVars, normVars, engineVars, apiVars, classifyVars, pipelineVars,
      dump, recon, entry>>

(***************************************************************************)
(* Python values and str methods                                           *)
(***************************************************************************)
\* A Python value: a str with its characters, or a non-str with its str().
Str(s) == [type |-> "str", val |-> s]
None == [type |-> "NoneType", val |-> <<"N", "o", "n", "e">>]
NaN == [type |-> "float", val |-> <<"n", "a", "n">>]

UpperCase ==
    <<"A", "B", "C", "D", "E", "F", "G", "H", "I", "J", "K", "L", "M",
      "N", "O", "P", "Q", "R", "S", "T", "U", "V", "W", "X", "Y", "Z">>
LowerCase ==
    <<"a", "b", "c", "d", "e", "f", "g", "h", "i", "j", "k", "l", "m",
      "n", "o", "p", "q", "r", "s", "t", "u", "v", "w", "x", "y", "z">>
Digit == {"0", "1", "2", "3", "4", "5", "6", "7", "8", "9"}
\* \s of re, and the characters str.strip() removes
Whitespace == {" ", "\t", "\n", "\r"}
\* \w of re
WordChar ==
    {UpperCase[k] : k \in 1..26} \cup {LowerCase[k] : k \in 1..26}
        \cup Digit \cup {"_"}

Min(S) == CHOOSE x \in S : \A y \in S : x <= y

\* str.upper(), one character
UpperChar(c) ==
    IF \E k \in 1..26 : LowerCase[k] = c
    THEN UpperCase[CHOOSE k \in 1..26 : LowerCase[k] = c]
    ELSE c

\* str.upper()
upper(s) == [k \in 1..Len(s) |-> UpperChar(s[k])]

\* str.strip()
strip(s) ==
    LET keep == {k \in 1..Len(s) : s[k] \notin Whitespace}
    IN  IF keep = {} THEN <<>>
        ELSE SubSeq(s, Min(keep), CHOOSE x \in keep : \A y \in keep : y <= x)

\* s[i:].startswith(w), i counted from 1
StartsWith(s, i, w) ==
    /\ i + Len(w) - 1 <= Len(s)
    /\ \A k \in 1..Len(w) : s[i + k - 1] = w[k]

\* sub in s
Contains(s, sub) == \E i \in 1..(Len(s) + 1) : StartsWith(s, i, sub)

\* str.find(), counted from 1, searching from position from; 0 when absent
Find(s, sub, from) ==
    LET at == {i \in from..(Len(s) + 1) : StartsWith(s, i, sub)}
    IN  IF at = {} THEN 0 ELSE Min(at)

RECURSIVE ReplaceFrom(_, _, _, _)
\* str.replace(old, new) on s[from:], old not empty: every non-overlapping
\* occurrence, left to right
ReplaceFrom(s, old, new, from) ==
    LET at == Find(s, old, from)
    IN  IF at = 0 THEN SubSeq(s, from, Len(s))
        ELSE SubSeq(s, from, at - 1) \o new
                 \o ReplaceFrom(s, old, new, at + Len(old))

\* str.replace(old, new), old not empty
replace(s, old, new) == ReplaceFrom(s, old, new, 1)

(***************************************************************************)
(* The regular-expression engine, as far as the three patterns use it      *)
(***************************************************************************)
RECURSIVE RunEnd(_, _, _)
\* The position after the longest run of characters of class at s[i:]:
\* a greedy \d+, \d*, \s+ or \s*.
RunEnd(s, i, class) ==
    IF i <= Len(s) /\ s[i] \in class THEN RunEnd(s, i + 1, class) ELSE i

\* An alternation (a|b|...) at position i: the first alternative, in the
\* pattern's order, that matches there; 0 when none does.
FirstAlt(s, i, alts) ==
    LET ok == {k \in 1..Len(alts) : StartsWith(s, i, alts[k])}
    IN  IF ok = {} THEN 0 ELSE Min(ok)

NoMatch == [found |-> FALSE, start |-> 0, end |-> 0, g1 |-> <<>>, g2 |-> <<>>]

\* group(0) of a match
Group0(s, m) == SubSeq(s, m.start, m.end - 1)

\* pattern.search(s): the match at the leftmost position where there is one;
\* at[i] is what the pattern matches at position i of s
Search(at) ==
    LET hits == {i \in DOMAIN at : at[i].found}
    IN  IF hits = {} THEN NoMatch ELSE at[Min(hits)]

\* The units of REGEX_DOSIS, in the order of its alternation
DosisUnits ==
    << <<"M", "G">>, <<"G">>, <<"G", "R">>, <<"M", "C", "G">>, <<"M", "L">>,
       <<"%">>, <<"U", "I">>, <<"G", "R", "S">> >>

\* REGEX_DOSIS matched at position i:
\* (\d+(?:[.,]\d+)?)\s*(MG|G|GR|MCG|ML|%|UI|GRS)
DosisAt(s, i) ==
    LET d1 == RunEnd(s, i, Digit)
        d2 == IF /\ d1 <= Len(s)
                 /\ s[d1] \in {".", ","}
                 /\ RunEnd(s, d1 + 1, Digit) > d1 + 1
              THEN RunEnd(s, d1 + 1, Digit)
              ELSE d1
        sp == RunEnd(s, d2, Whitespace)
        u  == FirstAlt(s, sp, DosisUnits)
    IN  IF d1 > i /\ u # 0
        THEN [found |-> TRUE, start |-> i, end |-> sp + Len(DosisUnits[u]),
              g1 |-> SubSeq(s, i, d2 - 1), g2 |-> DosisUnits[u]]
        ELSE NoMatch

REGEX_DOSIS(s) == Search([i \in 1..(Len(s) + 1) |-> DosisAt(s, i)])

\* The container units of REGEX_CANTIDAD, in the order of its alternation
CantidadUnits ==
    << <<"C", "O", "M", "P">>, <<"C", "A", "P">>, <<"S", "O", "B", "R", "E">>,
       <<"M", "L">>, <<"A", "M", "P", "O", "L", "L", "A">>,
       <<"F", "R", "A", "S", "C", "O">>, <<"U", "N", "I", "D">>,
       <<"U", "N", "D">>, <<"D", "O", "S", "I", "S">>, <<"G">> >>

\* The prefix (?:X\s*|ENV\s*|^|\s) at position i: the set of positions where
\* the number may start, the alternatives taken in the pattern's order.
CantidadPrefix(s, i) ==
    IF StartsWith(s, i, <<"X">>) THEN RunEnd(s, i + 1, Whitespace)
    ELSE IF StartsWith(s, i, <<"E", "N", "V">>)
         THEN RunEnd(s, i + 3, Whitespace)
    ELSE IF i = 1 /\ i <= Len(s) /\ s[i] \in Digit THEN i
    ELSE IF i <= Len(s) /\ s[i] \in Whitespace THEN i + 1
    ELSE 0

\* REGEX_CANTIDAD matched at position i:
\* (?:X\s*|ENV\s*|^|\s)(\d+)\s*(COMP|CAP|SOBRE|ML|AMPOLLA|FRASCO|UNID|UND|DOSIS|G)
CantidadAt(s, i) ==
    LET n  == CantidadPrefix(s, i)
        d1 == IF n = 0 THEN 0 ELSE RunEnd(s, n, Digit)
        sp == RunEnd(s, d1, Whitespace)
        u  == IF n = 0 THEN 0 ELSE FirstAlt(s, sp, CantidadUnits)
    IN  IF n # 0 /\ d1 > n /\ u # 0
        THEN [found |-> TRUE, start |-> i, end |-> sp + Len(CantidadUnits[u]),
              g1 |-> SubSeq(s, n, d1 - 1), g2 |-> CantidadUnits[u]]
        ELSE NoMatch

REGEX_CANTIDAD(s) ==
    Search([i \in 1..(Len(s) + 1) |-> CantidadAt(s, i)])

\* The markers of REGEX_LAB, in the order of its alternation
LabMarkers ==
    << <<"L", "A", "B", ".">>,
       <<"L", "A", "B", "O", "R", "A", "T", "O", "R", "I", "O">>,
       <<"L", "A", "B">> >>

\* REGEX_LAB matched at position i: (?:LAB\.|LABORATORIO|LAB)\s+(.*)$
\* A marker that white space follows; (.*)$ takes the rest of the text,
\* which must hold no line break.
LabAt(s, i) ==
    LET ok == {k \in 1..Len(LabMarkers) :
                  /\ StartsWith(s, i, LabMarkers[k])
                  /\ RunEnd(s, i + Len(LabMarkers[k]), Whitespace)
                         > i + Len(LabMarkers[k])}
        sp == RunEnd(s, i + Len(LabMarkers[Min(ok)]), Whitespace)
    IN  IF ok # {} /\ \A k \in sp..Len(s) : s[k] # "\n"
        THEN [found |-> TRUE, start |-> i, end |-> Len(s) + 1,
              g1 |-> SubSeq(s, sp, Len(s)), g2 |-> <<>>]
        ELSE NoMatch

REGEX_LAB(s) == Search([i \in 1..(Len(s) + 1) |-> LabAt(s, i)])

RECURSIVE CollapseFrom(_, _)
\* re.sub(r'\s+', ' ', s) on s[i:]
CollapseFrom(s, i) ==
    IF i > Len(s) THEN <<>>
    ELSE IF s[i] \in Whitespace
         THEN <<" ">> \o CollapseFrom(s, RunEnd(s, i, Whitespace))
         ELSE <<s[i]>> \o CollapseFrom(s, i + 1)

\* re.sub(r'\s+', ' ', s)
CollapseSpaces(s) == CollapseFrom(s, 1)

\* \b at position i: a word character on exactly one side
WordBoundary(s, i) ==
    (i > 1 /\ i - 1 <= Len(s) /\ s[i - 1] \in WordChar)
        # (i <= Len(s) /\ s[i] \in WordChar)

\* \bX\d+\b matched at position i: the position after the match, 0 when none
ResidualXAt(s, i) ==
    LET d == RunEnd(s, i + 1, Digit)
    IN  IF /\ StartsWith(s, i, <<"X">>)
           /\ WordBoundary(s, i)
           /\ d > i + 1
           /\ WordBoundary(s, d)
        THEN d ELSE 0

RECURSIVE StripResidualXFrom(_, _)
\* re.sub(r'\bX\d+\b', '', s) on s[i:]
StripResidualXFrom(s, i) ==
    IF i > Len(s) THEN <<>>
    ELSE IF ResidualXAt(s, i) # 0
         THEN StripResidualXFrom(s, ResidualXAt(s, i))
         ELSE <<s[i]>> \o StripResidualXFrom(s, i + 1)

(***************************************************************************)
(* DrugParser.parse                                                        *)
(***************************************************************************)
NO_IDENTIFICADO ==
    <<"N", "O", " ", "I", "D", "E", "N", "T", "I", "F", "I", "C", "A", "D", "O">>

\* Step 1: the lab, and the text with the lab span removed
ExtractLab(text) ==
    LET m == REGEX_LAB(text)
    IN  IF m.found
        THEN [lab |-> strip(m.g1), text |-> replace(text, Group0(text, m), <<>>),
              span |-> <<Group0(text, m)>>]
        ELSE [lab |-> NO_IDENTIFICADO, text |-> text, span |-> <<>>]

\* Step 2: the first dose, and the text with every copy of its match
\* replaced by a space
ExtractDose(text) ==
    LET m == REGEX_DOSIS(text)
    IN  IF m.found
        THEN [val |-> Str(m.g1), unit |-> Str(m.g2),
              text |-> replace(text, Group0(text, m), <<" ">>),
              span |-> <<Group0(text, m)>>]
        ELSE [val |-> None, unit |-> None, text |-> text, span |-> <<>>]

\* Step 3: the quantity, and the text with every copy of its match replaced
\* by a space
ExtractQty(text) ==
    LET m == REGEX_CANTIDAD(text)
    IN  IF m.found
        THEN [val |-> Str(m.g1), unit |-> Str(m.g2),
              text |-> replace(text, Group0(text, m), <<" ">>),
              span |-> <<Group0(text, m)>>]
        ELSE [val |-> None, unit |-> None, text |-> text, span |-> <<>>]

\* Step 4: white space collapsed and trimmed, residual X<digits> removed,
\* trimmed again
CleanUp(text) == strip(StripResidualXFrom(strip(CollapseSpaces(text)), 1))

\* The body of parse from text_bruto = product_name.upper().strip() on
ParseText(s) ==
    LET text_bruto == strip(upper(s))
        lab  == ExtractLab(text_bruto)
        dose == ExtractDose(lab.text)
        qty  == ExtractQty(dose.text)
    IN  [original |-> text_bruto, lab |-> lab.lab,
         dose_val |-> dose.val, dose_unit |-> dose.unit,
         qty_val |-> qty.val, qty_unit |-> qty.unit,
         clean_name |-> CleanUp(qty.text)]

\* parse without its isinstance guard: product_name.upper() raises on a
\* value that is no str
parse_Unguarded(name) ==
    IF name.type # "str"
    THEN [raised |-> "AttributeError"]
    ELSE ParseText(name.val)

\* DrugParser.parse(product_name): the dict it returns
parse(name) ==
    IF name.type # "str"
    THEN [original |-> name.val, clean_name |-> name.val,
          brand_type |-> "UNKNOWN", lab |-> NO_IDENTIFICADO,
          dose_val |-> None, dose_unit |-> None,
          qty_val |-> None, qty_unit |-> None]
    ELSE ParseText(name.val)

\* What parse matched and removed on the way: group(0) of the lab match, of
\* the dose match and of the quantity match, those that were found.
ConsumedSpans(name) ==
    IF name.type # "str" THEN <<>>
    ELSE LET lab  == ExtractLab(strip(upper(name.val)))
             dose == ExtractDose(lab.text)
             qty  == ExtractQty(dose.text)
         IN  lab.span \o dose.span \o qty.span

(***************************************************************************)
(* smart_match.normalize_text                                              *)
(***************************************************************************)
\* stop_words, in the order of the list
stop_words ==
    << <<"M", "G">>,
       <<"C", "O", "M", "P", "R", "I", "M", "I", "D", "O", "S">>,
       <<"C", "A", "P", "S", "U", "L", "A", "S">>,
       <<"J", "A", "R", "A", "B", "E">>,
       <<"C", "M">>, <<"A", "L">>, <<"X">>,
       <<"C", "A", "J", "A">>,
       <<"F", "R", "A", "S", "C", "O">> >>

\* \bword\b matched at position i
WholeWordAt(s, i, word) ==
    /\ StartsWith(s, i, word)
    /\ WordBoundary(s, i)
    /\ WordBoundary(s, i + Len(word))

RECURSIVE RemoveWordFrom(_, _, _)
\* re.sub(r'\b' + word + r'\b', '', s) on s[i:]
RemoveWordFrom(s, i, word) ==
    IF i > Len(s) THEN <<>>
    ELSE IF WholeWordAt(s, i, word)
         THEN RemoveWordFrom(s, i + Len(word), word)
         ELSE <<s[i]>> \o RemoveWordFrom(s, i + 1, word)

RECURSIVE RemoveStopWords(_, _)
\* The loop over stop_words, from the k-th word on
RemoveStopWords(s, k) ==
    IF k > Len(stop_words) THEN s
    ELSE RemoveStopWords(RemoveWordFrom(s, 1, stop_words[k]), k + 1)

\* [A-Z0-9\s]
NormalChar == {UpperCase[k] : k \in 1..26} \cup Digit \cup Whitespace

\* re.sub(r'[^A-Z0-9\s]', '', s)
RemoveSpecialChars(s) == SelectSeq(s, LAMBDA c : c \in NormalChar)

\* normalize_text(text)
normalize_text(text) ==
    IF text.type # "str" THEN <<>>
    ELSE strip(CollapseSpaces(RemoveSpecialChars(
             RemoveStopWords(upper(text.val), 1))))

(***************************************************************************)
(* Product names given to DrugParser.parse                                 *)
(***************************************************************************)
\* Most pieces in a product name written freely
MaxTokens == 4

Tokens ==
    {<<"A">>, <<"5">>, <<"m", "g">>, <<"X", "5">>}
Separators == {<<>>, <<" ">>}

RECURSIVE Joined(_)
\* The names written from exactly n tokens
Joined(n) ==
    IF n = 1 THEN Tokens
    ELSE {s \o sep \o t : s \in Joined(n - 1), sep \in Separators, t \in Tokens}


\* '<NAME> <n><dose-unit> [X]<m><container-unit> LAB[.] <L>'
Forms ==
    [name : {<<"A">>, <<"A", "B", " ", "C">>},
     n : {<<"5">>},
     sp1 : Separators,
     dose_unit : {DosisUnits[k] : k \in 1..Len(DosisUnits)},
     x : {<<>>, <<"X">>},
     m : {<<"5">>, <<"2", "5">>},
     sp2 : Separators,
     qty_unit : {CantidadUnits[k] : k \in 1..Len(CantidadUnits)},
     marker : {<<"L", "A", "B">>, <<"L", "A", "B", ".">>},
     lab : {<<"C", "H", "I", "L", "E", ".">>}]

FormText(f) ==
    f.name \o <<" ">> \o f.n \o f.sp1 \o f.dose_unit \o <<" ">>
        \o f.x \o f.m \o f.sp2 \o f.qty_unit \o <<" ">>
        \o f.marker \o <<" ">> \o f.lab

ParseCases ==
    {[name |-> Str(FormText(f)), form |-> <<f>>] : f \in Forms}
        \cup {[name |-> Str(s), form |-> <<>>] :
                 s \in {<<>>, <<" ">>, <<"\t", " ">>}
                          \cup UNION {Joined(n) : n \in 1..MaxTokens}}
        \cup {[name |-> v, form |-> <<>>] : v \in {None, NaN}}

ParserIdle ==
    /\ product_name = Str(<<>>)
    /\ form = <<>>
    /\ resultado = <<>>
    /\ reparsed = <<>>

ParseKeys ==
    {"original", "clean_name", "lab",
     "dose_val", "dose_unit", "qty_val", "qty_unit"}

\* res = DrugParser.parse(product_name)
Parse ==
    /\ resultado = <<>>
    /\ resultado' = <<parse(product_name)>>
    /\ UNCHANGED <<product_name, form, reparsed, normVars, engineVars, apiVars,
                 classifyVars, pipelineVars, dump, recon, entry>>

\* DrugParser.parse(res['clean_name'])
Reparse ==
    /\ Len(resultado) = 1
    /\ ParseKeys \subseteq DOMAIN resultado[1]
    /\ reparsed = <<>>
    /\ reparsed' = <<parse(Str(resultado[1].clean_name))>>
    /\ UNCHANGED <<product_name, form, resultado, normVars, engineVars, apiVars,
                 classifyVars, pipelineVars, dump, recon, entry>>

(***************************************************************************)
(* Texts given to normalize_text                                           *)
(***************************************************************************)
\* Most pieces in a text given to normalize_text
MaxNormTokens == 4

NormTokens ==
    {<<"M">>, <<"G">>, <<"m", "g">>, <<"-">>, <<" ">>, <<"A">>, <<"L">>}

RECURSIVE NormJoined(_)
NormJoined(n) ==
    IF n = 0 THEN {<<>>}
    ELSE {s \o t : s \in NormJoined(n - 1), t \in NormTokens}

NormInputs ==
    {Str(s) : s \in UNION {NormJoined(n) : n \in 0..MaxNormTokens}}
        \cup {None, NaN}

NormIdle ==
    /\ raw_text = Str(<<>>)
    /\ normalized = <<>>
    /\ renormalized = <<>>

\* normalize_text(raw_text)
Normalize ==
    /\ normalized = <<>>
    /\ normalized' = <<normalize_text(raw_text)>>
    /\ UNCHANGED <<raw_text, renormalized, parserVars, engineVars, apiVars,
                 classifyVars, pipelineVars, dump, recon, entry>>

\* normalize_text(normalize_text(raw_text))
Renormalize ==
    /\ Len(normalized) = 1
    /\ renormalized = <<>>
    /\ renormalized' = <<normalize_text(Str(normalized[1]))>>
    /\ UNCHANGED <<raw_text, normalized, parserVars, engineVars, apiVars,
                 classifyVars, pipelineVars, dump, recon, entry>>

(***************************************************************************)
(* DataManager (data_manager.py)                                           *)
(*                                                                         *)
(* rapidfuzz is a library outside the repository: what process.extractOne  *)
(* and fuzz.ratio return is an input of _enrich_compliance, a registry key *)
(* with its score and a ratio.  Calculated_PPUM is counted in hundredths.  *)
(***************************************************************************)
DESCONOCIDO == <<"D", "E", "S", "C", "O", "N", "O", "C", "I", "D", "O">>
COMPUESTO == <<"C", "O", "M", "P", "U", "E", "S", "T", "O">>

\* _load_mock_isp_db(): the items of the dict, in insertion order
isp_db_mock ==
    <<
     [key |->
          <<"A", "C", "I", "C", "L", "O", "V", "I", "R", " ", "2", "0", "0",
            " ", "M", "G">>,
      generics |->
          <<<<"A", "C", "I", "C", "L", "O", "V", "I", "R", " ", "2", "0", "0",
              " ", "M", "G">>>>,
      brands |->
          <<<<"Z", "O", "V", "I", "R", "A", "X", " ", "2", "0", "0", " ", "M",
              "G">>>>,
      active_ingredient |->
          <<"A", "C", "I", "C", "L", "O", "V", "I", "R">>],
     [key |->
          <<"A", "C", "I", "D", "O", " ", "A", "C", "E", "T", "I", "L", "S",
            "A", "L", "I", "C", "I", "L", "I", "C", "O", " ", "1", "0", "0",
            " ", "M", "G">>,
      generics |->
          <<<<"A", "C", "I", "D", "O", " ", "A", "C", "E", "T", "I", "L", "S",
              "A", "L", "I", "C", "I", "L", "I", "C", "O", " ", "1", "0", "0",
              " ", "M", "G">>>>,
      brands |->
          <<<<"C", "A", "R", "D", "I", "O", "A", "S", "P", "I", "R", "I", "N",
              "A", " ", "1", "0", "0">>,
            <<"A", "S", "P", "I", "R", "I", "N", "A", " ", "1", "0", "0">>>>,
      active_ingredient |->
          <<"A", "C", "I", "D", "O", " ", "A", "C", "E", "T", "I", "L", "S",
            "A", "L", "I", "C", "I", "L", "I", "C", "O">>],
     [key |->
          <<"P", "A", "R", "A", "C", "E", "T", "A", "M", "O", "L", " ", "5",
            "0", "0", " ", "M", "G">>,
      generics |->
          <<<<"P", "A", "R", "A", "C", "E", "T", "A", "M", "O", "L", " ", "5",
              "0", "0", " ", "M", "G">>>>,
      brands |->
          <<<<"P", "A", "N", "A", "D", "O", "L">>,
            <<"K", "I", "T", "A", "D", "O", "L">>>>,
      active_ingredient |->
          <<"P", "A", "R", "A", "C", "E", "T", "A", "M", "O", "L">>],
     [key |->
          <<"I", "B", "U", "P", "R", "O", "F", "E", "N", "O", " ", "4", "0",
            "0", " ", "M", "G">>,
      generics |->
          <<<<"I", "B", "U", "P", "R", "O", "F", "E", "N", "O", " ", "4", "0",
              "0", " ", "M", "G">>>>,
      brands |->
          <<<<"I", "B", "U", "P", "I", "R", "A", "C">>,
            <<"A", "C", "T", "R", "O", "N">>>>,
      active_ingredient |->
          <<"I", "B", "U", "P", "R", "O", "F", "E", "N", "O">>],
     [key |->
          <<"L", "O", "S", "A", "R", "T", "A", "N", " ", "5", "0", " ", "M",
            "G">>,
      generics |->
          <<<<"L", "O", "S", "A", "R", "T", "A", "N", " ", "5", "0", " ", "M",
              "G">>,
            <<"L", "O", "S", "A", "R", "T", "A", "N", " ", "P", "O", "T", "A",
              "S", "I", "C", "O", " ", "5", "0", " ", "M", "G">>>>,
      brands |->
          <<<<"C", "O", "Z", "A", "A", "R">>>>,
      active_ingredient |->
          <<"L", "O", "S", "A", "R", "T", "A", "N">>],
     [key |->
          <<"D", "I", "O", "N", "O", "G", "E", "S", "T", " ", "2", " ", "M",
            "G">>,
      generics |->
          <<<<"D", "I", "O", "N", "O", "G", "E", "S", "T">>>>,
      brands |->
          <<<<"A", "C", "O", "T", "O", "L">>>>,
      active_ingredient |->
          <<"D", "I", "O", "N", "O", "G", "E", "S", "T", " ", "+", " ", "E",
            "T", "I", "N", "I", "L", "E", "S", "T", "R", "A", "D", "I", "O",
            "L">>]
    >>

\* A registry key is taken when match_tuple[1] > 85
MatchThreshold == 85
\* A name is generic when ratio > 60
GenericThreshold == 60

\* self.isp_db_mock[key]
Data(key) ==
    isp_db_mock[CHOOSE i \in 1..Len(isp_db_mock) : isp_db_mock[i].key = key]

\* Whether some brand of data['brands'] is in clean_name
BrandIn(data, clean_name) ==
    \E b \in 1..Len(data.brands) : Contains(clean_name, data.brands[b])

\* Fallback 1: the first key that is in clean_name
KeyLookup(clean_name) ==
    LET hits == {i \in 1..Len(isp_db_mock) :
                    Contains(clean_name, isp_db_mock[i].key)}
    IN  IF hits = {} THEN <<>> ELSE <<isp_db_mock[Min(hits)].key>>

\* Fallback 2: the key of the first entry with a brand that is in clean_name
BrandLookup(clean_name) ==
    LET hits == {i \in 1..Len(isp_db_mock) :
                    BrandIn(isp_db_mock[i], clean_name)}
    IN  IF hits = {} THEN <<>> ELSE <<isp_db_mock[Min(hits)].key>>

\* Step 1 of _enrich_compliance: best_match, <<>> for None
BestMatch(clean_name, fuzzy, match_tuple) ==
    IF fuzzy
    THEN IF match_tuple.score > MatchThreshold
         THEN <<match_tuple.key>>
         ELSE <<>>
    ELSE IF KeyLookup(clean_name) # <<>>
         THEN KeyLookup(clean_name)
         ELSE BrandLookup(clean_name)

\* The name _enrich_compliance looks up: clean_name, or Producto when that is
\* empty
EnrichName(row) ==
    IF upper(row.clean_name) = <<>>
    THEN upper(row.Producto.val)
    ELSE upper(row.clean_name)

\* Steps 2 and 3 with the brands of every registry entry checked, also when
\* best_match is None
Flags_AnyBrand(clean_name, best, fuzzy, fuzz_ratio) ==
    IF best = <<>>
    THEN [Active_Ingredient |-> DESCONOCIDO,
          Is_Bioequivalent |->
              \E i \in 1..Len(isp_db_mock) :
                  BrandIn(isp_db_mock[i], clean_name),
          Is_Generic |-> FALSE]
    ELSE LET data == Data(best[1])
             found == data.active_ingredient
             ratio == IF fuzzy THEN fuzz_ratio
                      ELSE IF StartsWith(clean_name, 1, found) THEN 100 ELSE 0
             generic == /\ Contains(clean_name, found)
                        /\ ~Contains(clean_name, COMPUESTO)
                        /\ ratio > GenericThreshold
             brand == BrandIn(data, clean_name)
         IN  [Active_Ingredient |-> found,
              Is_Bioequivalent |-> generic \/ brand,
              Is_Generic |-> generic /\ ~brand]

\* Steps 2 and 3 with a generic detected whether or not COMPUESTO is in the
\* name
Flags_CompuestoGeneric(clean_name, best, fuzzy, fuzz_ratio) ==
    IF best = <<>>
    THEN [Active_Ingredient |-> DESCONOCIDO, Is_Bioequivalent |-> FALSE,
          Is_Generic |-> FALSE]
    ELSE LET data == Data(best[1])
             found == data.active_ingredient
             ratio == IF fuzzy THEN fuzz_ratio
                      ELSE IF StartsWith(clean_name, 1, found) THEN 100 ELSE 0
             generic == /\ Contains(clean_name, found)
                        /\ ratio > GenericThreshold
             brand == BrandIn(data, clean_name)
         IN  [Active_Ingredient |-> found,
              Is_Bioequivalent |-> generic \/ brand,
              Is_Generic |-> generic /\ ~brand]

\* Steps 2 and 3 with a brand found that leaves is_generic as step 2 set it
Flags_GenericKept(clean_name, best, fuzzy, fuzz_ratio) ==
    IF best = <<>>
    THEN [Active_Ingredient |-> DESCONOCIDO, Is_Bioequivalent |-> FALSE,
          Is_Generic |-> FALSE]
    ELSE LET data == Data(best[1])
             found == data.active_ingredient
             ratio == IF fuzzy THEN fuzz_ratio
                      ELSE IF StartsWith(clean_name, 1, found) THEN 100 ELSE 0
             generic == /\ Contains(clean_name, found)
                        /\ ~Contains(clean_name, COMPUESTO)
                        /\ ratio > GenericThreshold
             brand == BrandIn(data, clean_name)
         IN  [Active_Ingredient |-> found,
              Is_Bioequivalent |-> generic \/ brand,
              Is_Generic |-> generic]

\* Steps 2 and 3 of _enrich_compliance: found_active_ingredient,
\* is_bioequivalent and is_generic
Flags(clean_name, best, fuzzy, fuzz_ratio) ==
    IF best = <<>>
    THEN [Active_Ingredient |-> DESCONOCIDO, Is_Bioequivalent |-> FALSE,
          Is_Generic |-> FALSE]
    ELSE LET data == Data(best[1])
             found == data.active_ingredient
             ratio == IF fuzzy THEN fuzz_ratio
                      ELSE IF StartsWith(clean_name, 1, found) THEN 100 ELSE 0
             generic == /\ Contains(clean_name, found)
                        /\ ~Contains(clean_name, COMPUESTO)
                        /\ ratio > GenericThreshold
             brand == BrandIn(data, clean_name)
         IN  [Active_Ingredient |-> found,
              Is_Bioequivalent |-> generic \/ brand,
              Is_Generic |-> generic /\ ~brand]

DigitSeq == <<"0", "1", "2", "3", "4", "5", "6", "7", "8", "9">>

RECURSIVE DigitsValue(_)
\* int(s) of a str of digits
DigitsValue(s) ==
    IF s = <<>> THEN 0
    ELSE 10 * DigitsValue(SubSeq(s, 1, Len(s) - 1))
             + (CHOOSE d \in 0..9 : DigitSeq[d + 1] = s[Len(s)])

RECURSIVE Pow10(_)
Pow10(k) == IF k = 0 THEN 1 ELSE 10 * Pow10(k - 1)

\* A float: the fraction num / den, nan, or no float at all (float() raised
\* the exception named)
Fraction(n, d) == [kind |-> "number", num |-> n, den |-> d, raised |-> ""]
FloatError(x) == [kind |-> "raised", num |-> 0, den |-> 1, raised |-> x]

\* float(s) of a str: white space stripped; a decimal numeral <digits> or
\* <digits>.<digits> is its value, "nan" in any case is nan, another text
\* of the texts here is no number and float raises ValueError
FloatOfStr(s) ==
    LET t == strip(s)
        dots == {k \in 1..Len(t) : t[k] = "."}
        AllDigits(u) == u # <<>> /\ \A k \in 1..Len(u) : u[k] \in Digit
    IN  IF upper(t) = <<"N", "A", "N">> THEN [kind |-> "nan", num |-> 0, den |-> 1, raised |-> ""]
        ELSE IF AllDigits(t) THEN Fraction(DigitsValue(t), 1)
        ELSE IF /\ Cardinality(dots) = 1
                /\ AllDigits(SubSeq(t, 1, Min(dots) - 1))
                /\ AllDigits(SubSeq(t, Min(dots) + 1, Len(t)))
        THEN Fraction(DigitsValue(SubSeq(t, 1, Min(dots) - 1) \o
                                  SubSeq(t, Min(dots) + 1, Len(t))),
                      Pow10(Len(t) - Min(dots)))
        ELSE FloatError("ValueError")

\* float(v) of a Python value: a str is read, a number is itself, None
\* raises TypeError
float(v) ==
    IF v.type = "NoneType" THEN FloatError("TypeError")
    ELSE FloatOfStr(v.val)

\* round(price / qty, 2) in hundredths, qty > 0: the nearest hundredth (no
\* quotient of the prices and quantities here lies half-way between two)
Round2(price, qty) ==
    (2 * 100 * price.num * qty.den + price.den * qty.num)
        \div (2 * price.den * qty.num)

\* What _calculate_ppum returns: a number, in hundredths, or nan
Hundredths(h) == [nan |-> FALSE, hundredths |-> h]

\* _calculate_ppum(row): a ValueError or TypeError of float() is caught and
\* 0 returned; nan > 0 is false; round(nan / qty, 2) is nan
calculate_ppum(row) ==
    LET price == FloatOfStr(replace(row.Precio_Venta.val, <<",">>, <<".">>))
        qty == float(row.qty_val)
    IN  IF price.kind = "raised" \/ qty.kind # "number" THEN Hundredths(0)
        ELSE IF qty.num > 0
        THEN IF price.kind = "nan" THEN [nan |-> TRUE, hundredths |-> 0]
             ELSE Hundredths(Round2(price, qty))
        ELSE Hundredths(0)

\* _enrich_compliance(row): the row it returns
enrich_compliance(row, fuzzy, match_tuple, fuzz_ratio) ==
    LET clean_name == EnrichName(row)
        best == BestMatch(clean_name, fuzzy, match_tuple)
    IN  Flags(clean_name, best, fuzzy, fuzz_ratio)
            @@ [Calculated_PPUM |-> calculate_ppum(row)] @@ row

\* process_dataframe(df, 'Producto'), one row: the row with the columns of
\* parse(row['Producto'])
process_dataframe(row) == row @@ parse(row.Producto)

(***************************************************************************)
(* FarmaciaVallenarEngine (motor_busqueda.py)                              *)
(*                                                                         *)
(* A row of df has the columns buscar reads: clean_name, Active_Ingredient,*)
(* Stock, 'Precio Venta' (a number), Is_Generic, Is_Bioequivalent, and its *)
(* index label.  Series.str.contains(query) searches the regular           *)
(* expression query; a query holds no metacharacter but '.'.               *)
(***************************************************************************)

\* re: the pattern pat matches s at position i; '.' is any character but a
\* newline, another character is itself
PatternAt(s, i, pat) ==
    /\ i + Len(pat) - 1 <= Len(s)
    /\ \A k \in 1..Len(pat) :
           IF pat[k] = "." THEN s[i + k - 1] # "\n"
           ELSE s[i + k - 1] = pat[k]

\* Series.str.contains(pat, na=False), one cell: re.search(pat, s)
StrContains(s, pat) == \E i \in 1..(Len(s) + 1) : PatternAt(s, i, pat)

\* The key of sort_values(by=['Rank', 'Precio Venta']) with the row's
\* 'Precio Venta' first: a <= b
SortKeyLE_PriceFirst(a, b) ==
    \/ a.Precio_Venta < b.Precio_Venta
    \/ a.Precio_Venta = b.Precio_Venta /\ a.Rank <= b.Rank

\* The key of sort_values(by=['Rank', 'Precio Venta']): a <= b
SortKeyLE(a, b) ==
    \/ a.Rank < b.Rank
    \/ a.Rank = b.Rank /\ a.Precio_Venta <= b.Precio_Venta

RECURSIVE sort_values(_)
\* DataFrame.sort_values(by=['Rank', 'Precio Venta']): ascending, rows of
\* equal key in their order in the frame (a sort on several columns is a
\* stable lexsort)
sort_values(rows) ==
    IF rows = <<>> THEN <<>>
    ELSE LET done == sort_values(SubSeq(rows, 1, Len(rows) - 1))
             r == rows[Len(rows)]
             k == Cardinality({i \in 1..Len(done) : SortKeyLE(done[i], r)})
         IN  SubSeq(done, 1, k) \o <<r>> \o SubSeq(done, k + 1, Len(done))

\* calculate_rank with the bioequivalence test first
calculate_rank_BioFirst(row, query) ==
    IF row.Is_Bioequivalent THEN 2
    ELSE IF row.Is_Generic /\ row.Is_Bioequivalent THEN 1
    ELSE IF Contains(row.clean_name, query) THEN 3
    ELSE 4

\* calculate_rank(row), query from the enclosing buscar
calculate_rank(row, query) ==
    IF row.Is_Generic /\ row.Is_Bioequivalent THEN 1
    ELSE IF row.Is_Bioequivalent THEN 2
    ELSE IF Contains(row.clean_name, query) THEN 3
    ELSE 4

\* alternatives['Rank'] = alternatives.apply(calculate_rank, axis=1)
WithRank(rows, query) ==
    [k \in 1..Len(rows) |->
        [clean_name |-> rows[k].clean_name,
         Active_Ingredient |-> rows[k].Active_Ingredient,
         Stock |-> rows[k].Stock,
         Precio_Venta |-> rows[k].Precio_Venta,
         Is_Generic |-> rows[k].Is_Generic,
         Is_Bioequivalent |-> rows[k].Is_Bioequivalent,
         index |-> rows[k].index,
         Rank |-> calculate_rank(rows[k], query)]]

\* ref_rows and ref_price of _render_results; results is not empty
ReferencePrice(results, original_query) ==
    LET ref_rows ==
            SelectSeq(results,
                      LAMBDA r : StrContains(r.clean_name, original_query))
    IN  IF ref_rows # <<>> THEN ref_rows[1].Precio_Venta
        ELSE results[1].Precio_Venta

\* The line _render_results prints for a row, with the saving for a row of
\* every rank and without the test ref_price > price
RenderLine_AnyRank(row, ref_price) ==
    [index |-> row.index,
     tipo |-> IF row.Rank = 1 THEN "BIO GENERICO"
              ELSE IF row.Rank = 2 THEN "BIO MARCA"
              ELSE IF row.Rank = 3 THEN "SOLICITADO" ELSE "OTROS",
     precio |-> row.Precio_Venta,
     ahorro |-> <<ref_price - row.Precio_Venta>>]

\* The line _render_results prints for a row: its type, its price and
\* ahorro, <<>> for the empty ahorro_str and <<diff>> for "SAVE $diff"
RenderLine(row, ref_price) ==
    [index |-> row.index,
     tipo |-> IF row.Rank = 1 THEN "BIO GENERICO"
              ELSE IF row.Rank = 2 THEN "BIO MARCA"
              ELSE IF row.Rank = 3 THEN "SOLICITADO" ELSE "OTROS",
     precio |-> row.Precio_Venta,
     ahorro |-> IF row.Rank = 1 /\ ref_price > row.Precio_Venta
                THEN <<ref_price - row.Precio_Venta>>
                ELSE <<>>]

\* _render_results(results, original_query), results not empty
render_results(results, original_query) ==
    LET ref_price == ReferencePrice(results, original_query)
    IN  [ref_price |-> <<ref_price>>,
         lines |-> [k \in 1..Len(results) |->
                       RenderLine(results[k], ref_price)]]

\* The rows buscar ranks, those of the first match's active ingredient
\* whatever their stock
Alternatives_AnyStock(frame, matches) ==
    LET active_ing == matches[1].Active_Ingredient
    IN  IF active_ing # DESCONOCIDO
        THEN SelectSeq(frame, LAMBDA r : r.Active_Ingredient = active_ing)
        ELSE matches

\* The rows buscar ranks: those of the first match's active ingredient in
\* stock, or the matches when that ingredient is not known
Alternatives(frame, matches) ==
    LET active_ing == matches[1].Active_Ingredient
    IN  IF active_ing # DESCONOCIDO
        THEN SelectSeq(frame,
                 LAMBDA r : r.Active_Ingredient = active_ing /\ r.Stock > 0)
        ELSE matches

NoSearch ==
    [outcome |-> "idle", typed |-> <<>>, query |-> <<>>, alternatives |-> <<>>,
     sorted_results |-> <<>>, ref_price |-> <<>>, lines |-> <<>>]

\* buscar(query) on the frame.  outcome: "no_match" for the early return,
\* "rendered" when _render_results printed the table, "raised" when an
\* exception left buscar: with no row in alternatives, apply() returns an
\* empty frame that cannot be assigned to the column 'Rank', and
\* results.iloc[0] has no row to read.
buscar(frame, q) ==
    LET query == strip(upper(q))
        matches == SelectSeq(frame,
                       LAMBDA r : StrContains(upper(r.clean_name),
                                             upper(query)))
        alternatives == Alternatives(frame, matches)
        sorted_results == sort_values(WithRank(alternatives, query))
        shown == render_results(sorted_results, query)
    IN  IF matches = <<>>
        THEN [NoSearch EXCEPT !.outcome = "no_match", !.typed = q,
                              !.query = query]
        ELSE IF alternatives = <<>>
        THEN [NoSearch EXCEPT !.outcome = "raised", !.typed = q,
                              !.query = query]
        ELSE [outcome |-> "rendered", typed |-> q, query |-> query,
              alternatives |-> alternatives,
              sorted_results |-> sorted_results,
              ref_price |-> shown.ref_price, lines |-> shown.lines]

(***************************************************************************)
(* GET /product/{product_id}/alternatives (api/main.py)                    *)
(***************************************************************************)
NULL == 0

\* CATALOGO_MAESTRO: id and nombre_generico
CATALOGO_MAESTRO ==
    <<[id |-> 1, nombre_generico |-> <<"A">>],
      [id |-> 2, nombre_generico |-> <<"B">>]>>

\* The alternative built for a sibling row
Alternative(row, base_price) ==
    [id |-> row.id, nombre |-> row.nombre_comercial, precio |-> row.precio,
     stock |-> row.stock,
     savings |-> IF base_price - row.precio > 0
                 THEN base_price - row.precio ELSE 0,
     is_generic |-> Contains(row.nombre_comercial,
                             CATALOGO_MAESTRO[row.maestro_id].nombre_generico)]

\* The siblings query: same maestro_id, another id, in stock, joined to
\* CATALOGO_MAESTRO
Siblings(table, product_id) ==
    SelectSeq(table,
        LAMBDA r : /\ r.maestro_id = table[product_id].maestro_id
                   /\ r.id # product_id
                   /\ r.stock > 0
                   /\ r.maestro_id \in 1..Len(CATALOGO_MAESTRO))

\* ORDER BY i.precio ASC: the orders of rows it allows (SQL leaves the
\* order of rows of equal precio open)
OrderedByPrecio(rows) ==
    {[k \in 1..Len(rows) |-> rows[f[k]]] :
        f \in {g \in [1..Len(rows) -> 1..Len(rows)] :
                  /\ \A i, j \in 1..Len(rows) : i # j => g[i] # g[j]
                  /\ \A i, j \in 1..Len(rows) :
                         i < j => rows[g[i]].precio <= rows[g[j]].precio}}

\* get_alternatives(product_id): the responses it may return
get_alternatives(table, product_id) ==
    IF \/ product_id \notin 1..Len(table)
       \/ table[product_id].maestro_id = NULL
    THEN {[product_id |-> product_id, alternatives |-> <<>>]}
    ELSE {[product_id |-> product_id, alternatives |->
              [k \in 1..Len(rows) |->
                  Alternative(rows[k], table[product_id].precio)]] :
             rows \in OrderedByPrecio(Siblings(table, product_id))}

(***************************************************************************)
(* Inventories                                                             *)
(***************************************************************************)
\* Most rows in df and in INVENTARIO_LOCAL
MaxRows == 2

\* A Python int, with its str()
PyInt(digits) == [type |-> "int", val |-> digits]

\* The cells of the column 'Precio Venta' read_csv returns: a number, NaN for
\* an empty cell, a str for a cell that is no number to read_csv
PrecioVentaCells ==
    {PyInt(<<"5", "0", "0">>), PyInt(<<"9", "0", "0">>), NaN,
     Str(<<"9", ",", "5">>), Str(<<"a", "b", "c">>)}

\* What _enrich_compliance can set together: an unknown ingredient has no
\* flag, a generic is bioequivalent
Compliance ==
    {[Active_Ingredient |-> DESCONOCIDO, Is_Generic |-> FALSE,
      Is_Bioequivalent |-> FALSE],
     [Active_Ingredient |-> isp_db_mock[3].active_ingredient,
      Is_Generic |-> FALSE, Is_Bioequivalent |-> FALSE],
     [Active_Ingredient |-> isp_db_mock[3].active_ingredient,
      Is_Generic |-> FALSE, Is_Bioequivalent |-> TRUE],
     [Active_Ingredient |-> isp_db_mock[3].active_ingredient,
      Is_Generic |-> TRUE, Is_Bioequivalent |-> TRUE]}

ProductRow(name, c, stock, price, i) ==
    [clean_name |-> name, Active_Ingredient |-> c.Active_Ingredient,
     Stock |-> stock, Precio_Venta |-> price, Is_Generic |-> c.Is_Generic,
     Is_Bioequivalent |-> c.Is_Bioequivalent, index |-> i]

RECURSIVE Frames(_)
\* The frames of n rows, indexed 0..n-1
Frames(n) ==
    IF n = 0 THEN {<<>>}
    ELSE {Append(f, ProductRow(name, c, stock, price, n - 1)) :
             f \in Frames(n - 1), name \in {<<"A">>, <<"A", "B">>}, c \in Compliance,
             stock \in {0, 1}, price \in {500, 900}}

\* What the user may type at the prompt
Queries ==
    {<<"a">>, <<" ", "b", " ">>, <<"C">>, <<" ">>, <<"a", ".">>}

RECURSIVE Tables(_)
\* The tables INVENTARIO_LOCAL of n rows, id 1..n
Tables(n) ==
    IF n = 0 THEN {<<>>}
    ELSE {Append(t, [id |-> n, nombre_comercial |-> name,
                     maestro_id |-> m, precio |-> price, stock |-> stock]) :
             t \in Tables(n - 1), name \in {<<"A">>, <<"A", "B">>},
             m \in {NULL} \cup (1..Len(CATALOGO_MAESTRO)),
             stock \in {0, 1}, price \in {500, 900}}

\* Most pieces in a product name of the CSV file
MaxParts == 2

\* The pieces of a product name: an ingredient and a dose of the registry,
\* one of its brands, the word that bars a generic, a quantity, another
\* ingredient
NameParts ==
    {<<"P", "A", "R", "A", "C", "E", "T", "A", "M", "O", "L">>,
     <<"5", "0", "0", " ", "M", "G">>,
     <<"P", "A", "N", "A", "D", "O", "L">>,
     <<"C", "O", "M", "P", "U", "E", "S", "T", "O">>,
     <<"X", " ", "8", " ", "C", "O", "M", "P">>,
     <<"A", "C", "I", "C", "L", "O", "V", "I", "R">>}

RECURSIVE PartsJoined(_)
PartsJoined(n) ==
    IF n = 1 THEN NameParts
    ELSE {s \o <<" ">> \o t : s \in PartsJoined(n - 1), t \in NameParts}

\* The column Producto: a name, an empty cell read as NaN, an empty str
Productos ==
    {Str(s) : s \in UNION {PartsJoined(n) : n \in 1..MaxParts}}
        \cup {Str(<<>>), NaN}

\* What process.extractOne may return: a key of the registry and its score
MatchTuples ==
    [key : {isp_db_mock[i].key : i \in 1..Len(isp_db_mock)},
     score : {MatchThreshold, MatchThreshold + 1}]

NoRow == [Producto |-> Str(<<>>), Precio_Venta |-> PyInt(<<"0">>)]

\* The files the loaders read
DATA_PATH == "golan.csv"
GOLAN_FILE == "inventario golan.xlsx"
CENABAST_FILE ==
    "Maestro Materiales Cenabast Octubre 2025 - Listado Productos.csv"

Loaders == {"load_data", "load_maestro", "load_inventario"}
NotCalled == [l \in Loaders |-> "pending"]

NoSheet == [columns |-> {}, rows |-> <<>>]

\* The migration has not run
MigrationIdle ==
    /\ cenabast = <<>>
    /\ golan = NoSheet
    /\ catalogo_maestro = <<>>
    /\ records_to_insert = <<>>
    /\ match_log = <<>>
    /\ pc = "none"

PipelineIdle == files = {} /\ loader = NotCalled /\ MigrationIdle

ClassifyIdle ==
    /\ FUZZY_AVAILABLE = FALSE
    /\ raw_row = NoRow
    /\ parsed_row = <<>>
    /\ extracted = <<>>
    /\ best_match = <<>>
    /\ enriched = <<>>

EngineIdle == df = <<>> /\ search = NoSearch
ApiIdle == inventario_local = <<>> /\ response = <<>>

\* engine.buscar(q) at the prompt
Buscar(q) ==
    /\ entry = "motor_busqueda"
    /\ search' = buscar(df, q)
    /\ UNCHANGED <<df, parserVars, normVars, apiVars, classifyVars, pipelineVars, dump, recon, entry>>

\* GET /product/{product_id}/alternatives
GetAlternatives(product_id) ==
    /\ entry = "api"
    /\ response' \in
           {<<b>> :
               b \in get_alternatives(inventario_local, product_id)}
    /\ UNCHANGED <<inventario_local, parserVars, normVars, engineVars,
                 classifyVars, pipelineVars, dump, recon, entry>>

\* load_data: self.inventory_df = DrugParser.process_dataframe(df, ...)
ProcessDataframe ==
    /\ entry = "data_manager"
    /\ DATA_PATH \in files
    /\ parsed_row = <<>>
    /\ parsed_row' = <<process_dataframe(raw_row)>>
    /\ UNCHANGED <<FUZZY_AVAILABLE, raw_row, extracted, best_match, enriched,
                   parserVars, normVars, engineVars, apiVars, pipelineVars,
                   dump, recon, entry>>

\* load_data: self.inventory_df.apply(self._enrich_compliance, axis=1)
EnrichCompliance ==
    /\ Len(parsed_row) = 1
    /\ enriched = <<>>
    /\ \E mt \in MatchTuples, fuzz_ratio \in {GenericThreshold, GenericThreshold + 1} :
           /\ extracted' = IF FUZZY_AVAILABLE THEN <<mt>> ELSE <<>>
           /\ best_match' = BestMatch(EnrichName(parsed_row[1]),
                                      FUZZY_AVAILABLE, mt)
           /\ enriched' = <<enrich_compliance(parsed_row[1], FUZZY_AVAILABLE,
                                              mt, fuzz_ratio)>>
    /\ loader' = [loader EXCEPT !["load_data"] = "returned"]
    /\ UNCHANGED <<FUZZY_AVAILABLE, raw_row, parsed_row, parserVars, normVars,
                   engineVars, apiVars, files, cenabast, golan,
                   catalogo_maestro, records_to_insert, match_log, pc, dump, recon,
                   entry>>

\* load_data: raise FileNotFoundError
LoadDataNoFile ==
    /\ entry = "data_manager"
    /\ DATA_PATH \notin files
    /\ loader["load_data"] = "pending"
    /\ loader' = [loader EXCEPT !["load_data"] = "raised"]
    /\ UNCHANGED <<files, cenabast, golan, catalogo_maestro, records_to_insert,
                   match_log, pc, parserVars, normVars, engineVars, apiVars,
                   classifyVars, dump, recon,
                   entry>>

(***************************************************************************)
(* The migration (etl/pipeline.py)                                         *)
(***************************************************************************)
RECURSIVE UniqueNames(_, _)
\* load_maestro: the names of records, from the cells of the column 'Nombre
\* producto genérico'; seen is unique_names
UniqueNames(cells, seen) ==
    IF cells = <<>> THEN <<>>
    ELSE LET nombre == upper(strip(Head(cells).val))
         IN  IF nombre # <<>> /\ nombre \notin seen
             THEN <<nombre>> \o UniqueNames(Tail(cells), seen \cup {nombre})
             ELSE UniqueNames(Tail(cells), seen)

\* SELECT id, nombre_generico FROM CATALOGO_MAESTRO: the id of a name, the
\* position at which executemany inserted it
maestro_cache(maestro_keys, name) ==
    CHOOSE k \in 1..Len(maestro_keys) : maestro_keys[k] = name

\* The rank of a character in the order of the code points: the space, the
\* digits, the capital letters
CodePoint(c) ==
    LET ordered == <<" ">> \o DigitSeq \o UpperCase
    IN  CHOOSE k \in 1..Len(ordered) : ordered[k] = c

RECURSIVE StrGreater(_, _)
\* a > b for two str
StrGreater(a, b) ==
    IF a = <<>> THEN FALSE
    ELSE IF b = <<>> THEN TRUE
    ELSE IF Head(a) = Head(b) THEN StrGreater(Tail(a), Tail(b))
    ELSE CodePoint(Head(a)) > CodePoint(Head(b))

RECURSIVE CommonRun(_, _, _, _, _, _)
\* The length of the longest k with a[i:i+k] == b[j:j+k] inside a[:ahi] and
\* b[:bhi]; positions count from 1 and ahi, bhi are exclusive
CommonRun(a, i, ahi, b, j, bhi) ==
    IF i < ahi /\ j < bhi /\ a[i] = b[j]
    THEN 1 + CommonRun(a, i + 1, ahi, b, j + 1, bhi)
    ELSE 0

\* SequenceMatcher.find_longest_match without junk: the longest matching
\* block of a[alo:ahi] and b[blo:bhi], the one that starts earliest in a and,
\* of those, earliest in b
find_longest_match(a, alo, ahi, b, blo, bhi) ==
    LET blocks == (alo..(ahi - 1)) \X (blo..(bhi - 1))
        size(c) == CommonRun(a, c[1], ahi, b, c[2], bhi)
        best == CHOOSE c \in blocks : \A d \in blocks :
                    \/ size(c) > size(d)
                    \/ /\ size(c) = size(d)
                       /\ \/ c[1] < d[1]
                          \/ c[1] = d[1] /\ c[2] <= d[2]
    IN  [i |-> best[1], j |-> best[2], k |-> size(best)]

RECURSIVE MatchedSize(_, _, _, _, _, _)
\* The sum of the sizes of SequenceMatcher.get_matching_blocks()
MatchedSize(a, alo, ahi, b, blo, bhi) ==
    IF alo >= ahi \/ blo >= bhi THEN 0
    ELSE LET m == find_longest_match(a, alo, ahi, b, blo, bhi)
         IN  IF m.k = 0 THEN 0
             ELSE m.k + MatchedSize(a, alo, m.i, b, blo, m.j)
                      + MatchedSize(a, m.i + m.k, ahi, b, m.j + m.k, bhi)

\* SequenceMatcher(None, a, b).ratio(): 2.0 * matches / (len(a) + len(b)),
\* as a fraction; 1.0 for two empty sequences
ratio(a, b) ==
    IF Len(a) + Len(b) = 0 THEN [num |-> 1, den |-> 1]
    ELSE [num |-> 2 * MatchedSize(a, 1, Len(a) + 1, b, 1, Len(b) + 1),
          den |-> Len(a) + Len(b)]

\* cutoff=0.8 of get_close_matches, in hundredths
Cutoff == 80
\* match[1] > 85
LinkThreshold == 85

\* difflib.get_close_matches(word, possibilities, n=1, cutoff=0.8): result
\* holds the possibilities with s.ratio() >= cutoff
get_close_matches(word, possibilities) ==
    LET result == {k \in 1..Len(possibilities) :
                      LET r == ratio(possibilities[k], word)
                      IN  r.num * 100 >= Cutoff * r.den}
        \* (score, x) of one possibility greater than that of another, as
        \* heapq.nlargest compares the tuples
        ScoredGreater(x, y) ==
            LET rx == ratio(x, word)
                ry == ratio(y, word)
            IN  \/ rx.num * ry.den > ry.num * rx.den
                \/ rx.num * ry.den = ry.num * rx.den /\ StrGreater(x, y)
    IN  IF result = {} THEN <<>>
        ELSE <<possibilities[CHOOSE k \in result : \A j \in result \ {k} :
                   ScoredGreater(possibilities[k], possibilities[j])]>>

\* load_inventario, step 3: maestro_id, <<>> for None; match is what
\* process.extractOne returned
SmartLink(clean_name, maestro_keys, fuzzy, match) ==
    IF \E k \in 1..Len(maestro_keys) : maestro_keys[k] = clean_name
    THEN <<maestro_cache(maestro_keys, clean_name)>>
    ELSE IF maestro_keys # <<>>
    THEN IF fuzzy
         THEN IF match.score > LinkThreshold
              THEN <<maestro_cache(maestro_keys, match.key)>>
              ELSE <<>>
         ELSE LET matches == get_close_matches(clean_name, maestro_keys)
              IN  IF matches # <<>>
                  THEN <<maestro_cache(maestro_keys, matches[1])>>
                  ELSE <<>>
    ELSE <<>>

\* int(cell) if pd.notna(cell) else 0, and 0 when int() raises; cell is <<>>
\* when the column was not found and row[None] raises
IntOr0(cell) ==
    IF cell = <<>> THEN 0
    ELSE IF cell[1].type = "int" THEN DigitsValue(cell[1].val)
    ELSE IF cell[1].type = "str" /\ cell[1].val # <<>>
            /\ \A k \in 1..Len(cell[1].val) : cell[1].val[k] \in Digit
    THEN DigitsValue(cell[1].val)
    ELSE 0

\* row[col] for a column that may not have been found
Cell(columns, row, col) == IF col \in columns THEN <<row[col]>> ELSE <<>>

\* load_inventario, the body of the loop for one row: the tuple appended to
\* records_to_insert; the row is skipped when its raw_name is 'nan'
InventarioRecord(columns, row, maestro_keys, fuzzy, match) ==
    LET raw_name == row.Producto.val
        clean_name == parse(Str(raw_name)).clean_name
        code == Cell(columns, row, "Codigo")
    IN  [skipped |-> raw_name = NaN.val,
         clean_name |-> clean_name,
         match |-> IF /\ fuzzy
                      /\ maestro_keys # <<>>
                      /\ \A k \in 1..Len(maestro_keys) :
                             maestro_keys[k] # clean_name
                   THEN <<match>>
                   ELSE <<>>,
         sku |-> IF code # <<>> /\ code[1] # NaN THEN <<code[1].val>> ELSE <<>>,
         nombre_comercial |-> raw_name,
         precio |-> IntOr0(Cell(columns, row, "Precio")),
         stock |-> IntOr0(Cell(columns, row, "Stock")),
         maestro_id |-> SmartLink(clean_name, maestro_keys, fuzzy, match)]

\* load_inventario, the loop: the records of the rows that are not skipped
InventarioRecords(columns, rows, maestro_keys, fuzzy, matches) ==
    SelectSeq([i \in 1..Len(rows) |->
                  InventarioRecord(columns, rows[i], maestro_keys, fuzzy,
                                   matches[i])],
              LAMBDA r : ~r.skipped)

(***************************************************************************)
(* The files of the migration                                              *)
(***************************************************************************)
\* Most rows in CENABAST_FILE
MaxMaestro == 2
\* Most rows in GOLAN_FILE
MaxGolan == 1

\* Cells of 'Nombre producto genérico'
CenabastCells ==
    {Str(<<"i", "b", "u", "p", "r", "o", "f", "e", "n", "o", " ">>),
     Str(<<"A", "C", "I", "C", "L", "O", "V", "I", "R">>),
     Str(<<" ">>)}

\* The columns of the sheet: all four, the product alone, no product
ColumnSets ==
    {{"Producto", "Stock", "Precio", "Codigo"}, {"Producto"},
     {"Stock", "Precio"}}

\* Rows of the sheet: a name that parses to a name of the catalogue, two
\* misspelt names, a name with nothing in common, an empty cell
GolanRows ==
    {[Producto |-> Str(<<"I", "b", "u", "p", "r", "o", "f", "e", "n", "o", " ", "4", "0", "0", " ", "m", "g">>),
      Stock |-> PyInt(<<"3">>), Precio |-> PyInt(<<"5", "0", "0">>),
      Codigo |-> PyInt(<<"7", "8">>)],
     [Producto |-> Str(<<"I", "B", "U", "P", "R", "O", "F", "I", "N", "A">>),
      Stock |-> NaN, Precio |-> PyInt(<<"9", "0", "0">>), Codigo |-> NaN],
     [Producto |-> Str(<<"I", "B", "U", "P", "R", "O", "F", "E", "N", "A">>),
      Stock |-> Str(<<"a", "b", "c">>), Precio |-> Str(<<"9", "0", "0">>),
      Codigo |-> Str(<<"A", "1">>)],
     [Producto |-> Str(<<"T", "O", "B", "R", "A", "M", "I", "C", "I", "N", "A">>),
      Stock |-> PyInt(<<"0">>), Precio |-> NaN, Codigo |-> NaN],
     [Producto |-> NaN,
      Stock |-> NaN, Precio |-> NaN, Codigo |-> NaN]}

\* What process.extractOne may return for each row; <<>> stands for a row it
\* is not called for
LinkerMatches(maestro_keys, fuzzy, n) ==
    IF maestro_keys = <<>> \/ ~fuzzy THEN {[i \in 1..n |-> <<>>]}
    ELSE [1..n -> [key : {maestro_keys[k] : k \in 1..Len(maestro_keys)},
                   score : {LinkThreshold, LinkThreshold + 1}]]

\* load_maestro(connection)
LoadMaestro ==
    /\ entry = "pipeline"
    /\ pc = "load_maestro"
    /\ IF CENABAST_FILE \notin files
       THEN catalogo_maestro' = catalogo_maestro
       ELSE catalogo_maestro' = catalogo_maestro \o UniqueNames(cenabast, {})
    /\ loader' = [loader EXCEPT !["load_maestro"] = "returned"]
    /\ pc' = "load_inventario"
    /\ UNCHANGED <<files, cenabast, golan, records_to_insert, match_log,
                   parserVars, normVars, engineVars, apiVars, classifyVars,
                   dump, recon, entry>>

\* load_inventario(connection); matches is what process.extractOne returns
\* row by row
LoadInventario(matches) ==
    /\ entry = "pipeline"
    /\ pc = "load_inventario"
    /\ IF GOLAN_FILE \notin files \/ "Producto" \notin golan.columns
       THEN UNCHANGED <<records_to_insert, match_log>>
       ELSE \E records \in {InventarioRecords(golan.columns, golan.rows,
                                               catalogo_maestro,
                                               FUZZY_AVAILABLE, matches)} :
                /\ records_to_insert' =
                       [k \in 1..Len(records) |->
                           [sku |-> records[k].sku,
                            nombre_comercial |-> records[k].nombre_comercial,
                            precio |-> records[k].precio,
                            stock |-> records[k].stock,
                            maestro_id |-> records[k].maestro_id]]
                /\ match_log' = [k \in 1..Len(records) |-> records[k].match]
    /\ loader' = [loader EXCEPT !["load_inventario"] = "returned"]
    /\ pc' = "close"
    /\ UNCHANGED <<files, cenabast, golan, catalogo_maestro, parserVars,
                   normVars, engineVars, apiVars, classifyVars, dump, recon,
                   entry>>

\* connection.close() and the message 'MIGRACIÓN COMPLETADA'
Close ==
    /\ entry = "pipeline"
    /\ pc = "close"
    /\ pc' = "done"
    /\ UNCHANGED <<files, cenabast, golan, catalogo_maestro, records_to_insert,
                   match_log, loader, parserVars, normVars, engineVars,
                   apiVars, classifyVars, dump, recon,
                   entry>>

(***************************************************************************)
(* fix_dump.process_dump                                                   *)
(***************************************************************************)
\* process_dump before it opens the files
NoDump ==
    [fin |-> <<>>, read |-> 0, inside_chunk_create |-> FALSE,
     current_chunk |-> <<>>, chunk_map |-> <<>>, fout |-> <<>>]

\* _hyper_\d+_\d+_chunk matched at position i of line: the position after the
\* match, 0 when there is none
ChunkEnd(line, i) ==
    LET a == i + 7
        b == RunEnd(line, a, Digit)
        c == RunEnd(line, b + 1, Digit)
    IN  IF /\ StartsWith(line, i, <<"_", "h", "y", "p", "e", "r", "_">>)
           /\ b > a
           /\ StartsWith(line, b, <<"_">>)
           /\ c > b + 1
           /\ StartsWith(line, c, <<"_", "c", "h", "u", "n", "k">>)
        THEN c + 6
        ELSE 0

\* table_create_regex.search(line): <<>> for None, else <<group(1)>>
table_create_regex(line) ==
    LET head == <<"C", "R", "E", "A", "T", "E", " ", "T", "A", "B", "L", "E",
                  " ", "_", "t", "i", "m", "e", "s", "c", "a", "l", "e", "d",
                  "b", "_", "i", "n", "t", "e", "r", "n", "a", "l", ".">>
        name(i) == i + Len(head)
        at == {i \in 1..Len(line) :
                  /\ StartsWith(line, i, head)
                  /\ ChunkEnd(line, name(i)) # 0
                  /\ StartsWith(line,
                                RunEnd(line, ChunkEnd(line, name(i)),
                                       Whitespace),
                                <<"(">>)}
    IN  IF at = {} THEN <<>>
        ELSE <<SubSeq(line, name(Min(at)),
                      ChunkEnd(line, name(Min(at))) - 1)>>

\* inherits_regex.search(line): <<>> for None, else <<group(1)>>
inherits_regex(line) ==
    LET head == <<"I", "N", "H", "E", "R", "I", "T", "S">>
        open(i) == RunEnd(line, i + Len(head), Whitespace)
        schema == <<"(", "p", "u", "b", "l", "i", "c", ".">>
        close(i) == RunEnd(line, open(i) + Len(schema), WordChar)
        at == {i \in 1..Len(line) :
                  /\ StartsWith(line, i, head)
                  /\ StartsWith(line, open(i), schema)
                  /\ close(i) > open(i) + Len(schema)
                  /\ StartsWith(line, close(i), <<")">>)}
    IN  IF at = {} THEN <<>>
        ELSE <<SubSeq(line, open(Min(at)) + 1, close(Min(at)) - 1)>>

\* copy_regex.search(line): <<>> for None, else <<[chunk_name |-> group(1),
\* cols |-> group(2)]>>
copy_regex(line) ==
    LET head == <<"C", "O", "P", "Y", " ", "_", "t", "i", "m", "e", "s", "c",
                  "a", "l", "e", "d", "b", "_", "i", "n", "t", "e", "r", "n",
                  "a", "l", ".">>
        name(i) == i + Len(head)
        open(i) == RunEnd(line, ChunkEnd(line, name(i)), Whitespace)
        \* (.*?)\)\s*FROM stdin; after the parenthesis at j: the positions of
        \* the closing parenthesis
        closes(j) == {p \in (j + 1)..Len(line) :
                         /\ line[p] = ")"
                         /\ \A q \in (j + 1)..(p - 1) : line[q] # "\n"
                         /\ StartsWith(line,
                                       RunEnd(line, p + 1, Whitespace),
                                       <<"F", "R", "O", "M", " ", "s", "t",
                                         "d", "i", "n", ";">>)}
        at == {i \in 1..Len(line) :
                  /\ StartsWith(line, i, head)
                  /\ ChunkEnd(line, name(i)) # 0
                  /\ StartsWith(line, open(i), <<"(">>)
                  /\ closes(open(i)) # {}}
    IN  IF at = {} THEN <<>>
        ELSE LET i == Min(at)
             IN  <<[chunk_name |->
                        SubSeq(line, name(i), ChunkEnd(line, name(i)) - 1),
                    cols |-> SubSeq(line, open(i) + 1,
                                    Min(closes(open(i))) - 1)]>>

\* skip_regex.search(line)
skip_regex(line) ==
    \E word \in {<<"A", "L", "T", "E", "R">>,
                 <<"C", "R", "E", "A", "T", "E">>,
                 <<"D", "R", "O", "P">>,
                 <<"C", "O", "M", "M", "E", "N", "T">>} :
        /\ StartsWith(line, 1, word \o <<" ">>)
        /\ \E p \in (Len(word) + 2)..Len(line) :
               /\ StartsWith(line, p, <<"_", "t", "i", "m", "e", "s", "c",
                                        "a", "l", "e", "d", "b", "_", "i",
                                        "n", "t", "e", "r", "n", "a", "l">>)
               /\ \A q \in (Len(word) + 2)..(p - 1) : line[q] # "\n"

\* The body of the loop of process_dump for one line: what it leaves in
\* inside_chunk_create, current_chunk, chunk_map and the output file
process_line(d, line) ==
    LET m_create == table_create_regex(line)
        m_inherits == inherits_regex(line)
        m_copy == copy_regex(line)
        stripped == strip(line)
    IN  IF m_create # <<>>
        THEN [d EXCEPT !.inside_chunk_create = TRUE,
                       !.current_chunk = m_create]
        ELSE IF d.inside_chunk_create
        THEN LET mapped ==
                     IF m_inherits # <<>>
                     THEN (d.current_chunk[1] :> m_inherits[1]) @@ d.chunk_map
                     ELSE d.chunk_map
             IN  IF stripped # <<>> /\ stripped[Len(stripped)] = ";"
                 THEN [d EXCEPT !.chunk_map = mapped,
                                !.inside_chunk_create = FALSE,
                                !.current_chunk = <<>>]
                 ELSE [d EXCEPT !.chunk_map = mapped]
        ELSE IF m_copy # <<>> /\ m_copy[1].chunk_name \in DOMAIN d.chunk_map
        THEN [d EXCEPT !.fout =
                 Append(@, <<"C", "O", "P", "Y", " ">> \o d.chunk_map[m_copy[1].chunk_name]
                               \o <<" ", "(">> \o m_copy[1].cols
                               \o <<")", " ", "F", "R", "O", "M", " ", "s",
                                    "t", "d", "i", "n", ";", "\n">>)]
        ELSE IF skip_regex(line) THEN d
        ELSE IF Contains(line, <<"C", "R", "E", "A", "T", "E", " ", "E", "X",
                                 "T", "E", "N", "S", "I", "O", "N", " ", "I",
                                 "F", " ", "N", "O", "T", " ", "E", "X", "I",
                                 "S", "T", "S", " ", "t", "i", "m", "e", "s",
                                 "c", "a", "l", "e", "d", "b">>)
        THEN d
        ELSE [d EXCEPT !.fout = Append(@, line)]

\* for line in fin: one line read and processed
ProcessLine ==
    /\ entry = "fix_dump"
    /\ dump.read < Len(dump.fin)
    /\ dump' = [process_line(dump, dump.fin[dump.read + 1])
                    EXCEPT !.read = dump.read + 1]
    /\ UNCHANGED <<recon, parserVars, normVars, engineVars, apiVars,
                   classifyVars, pipelineVars, entry>>

\* Most lines in timescale_prod.sql
MaxDump == 3

\* Lines of a dump: a chunk CREATE TABLE statement on two lines and on one, a
\* COPY header of the chunk and a row of its data, an ALTER of the chunk, the
\* extension, a statement of another table
DumpLines ==
    {<<"C", "R", "E", "A", "T", "E", " ", "T", "A", "B", "L", "E", " ", "_",
       "t", "i", "m", "e", "s", "c", "a", "l", "e", "d", "b", "_", "i", "n",
       "t", "e", "r", "n", "a", "l", ".", "_", "h", "y", "p", "e", "r", "_",
       "1", "_", "2", "_", "c", "h", "u", "n", "k", " ", "(", "\n">>,
     <<")", " ", "I", "N", "H", "E", "R", "I", "T", "S", " ", "(", "p", "u",
       "b", "l", "i", "c", ".", "v", "e", "n", "t", "a", "s", ")", ";", "\n">>,
     <<"C", "R", "E", "A", "T", "E", " ", "T", "A", "B", "L", "E", " ", "_",
       "t", "i", "m", "e", "s", "c", "a", "l", "e", "d", "b", "_", "i", "n",
       "t", "e", "r", "n", "a", "l", ".", "_", "h", "y", "p", "e", "r", "_",
       "1", "_", "2", "_", "c", "h", "u", "n", "k", " ", "(", ")", " ", "I",
       "N", "H", "E", "R", "I", "T", "S", " ", "(", "p", "u", "b", "l", "i",
       "c", ".", "v", "e", "n", "t", "a", "s", ")", ";", "\n">>,
     <<"C", "O", "P", "Y", " ", "_", "t", "i", "m", "e", "s", "c", "a", "l",
       "e", "d", "b", "_", "i", "n", "t", "e", "r", "n", "a", "l", ".", "_",
       "h", "y", "p", "e", "r", "_", "1", "_", "2", "_", "c", "h", "u", "n",
       "k", " ", "(", "i", "d", ",", " ", "m", "o", "n", "t", "o", ")", " ",
       "F", "R", "O", "M", " ", "s", "t", "d", "i", "n", ";", "\n">>,
     <<"1", "\t", "5", "\n">>,
     <<"A", "L", "T", "E", "R", " ", "T", "A", "B", "L", "E", " ", "_", "t",
       "i", "m", "e", "s", "c", "a", "l", "e", "d", "b", "_", "i", "n", "t",
       "e", "r", "n", "a", "l", ".", "_", "h", "y", "p", "e", "r", "_", "1",
       "_", "2", "_", "c", "h", "u", "n", "k", " ", "O", "W", "N", "E", "R",
       " ", "T", "O", " ", "x", ";", "\n">>,
     <<"C", "R", "E", "A", "T", "E", " ", "E", "X", "T", "E", "N", "S", "I",
       "O", "N", " ", "I", "F", " ", "N", "O", "T", " ", "E", "X", "I", "S",
       "T", "S", " ", "t", "i", "m", "e", "s", "c", "a", "l", "e", "d", "b",
       ";", "\n">>,
     <<"S", "E", "L", "E", "C", "T", " ", "1", ";", "\n">>}

(***************************************************************************)
(* smart_match.main                                                        *)
(***************************************************************************)
\* main before it runs
NoRecon ==
    [products |-> <<>>, processed |-> 0, updates_dci |-> 0, updates_bio |-> 0,
     transaction |-> <<>>, committed |-> <<>>, reported |-> <<>>]

\* lab_score > 0.6 or name_score > 0.6, in hundredths
SimilarThreshold == 60

\* main, steps 1 and 2 for one product (id, name, laboratory): detected_dci,
\* <<>> for None, and is_bioequivalent
Reconcile(product) ==
    LET \* df_isp: the rows read from data/isp_oficial.csv
        df_isp ==
            <<[Principio_Activo |-> Str(<<"P", "A", "R", "A", "C", "E", "T", "A",
                                          "M", "O", "L">>),
               Producto |-> Str(<<"K", "I", "T", "A", "D", "O", "L">>),
               Titular |-> Str(<<"L", "A", "B", "O", "R", "A", "T", "O", "R", "I",
                                 "O", " ", "C", "H", "I", "L", "E">>),
               Estado |-> Str(<<"E", "q", "u", "i", "v", "a", "l", "e", "n", "t",
                                "e", " ", "T", "e", "r", "a", "p", "e", "u", "t",
                                "i", "c", "o">>),
               Vigencia |-> Str(<<"V", "I", "G", "E", "N", "T", "E">>)],
              [Principio_Activo |-> Str(<<"I", "B", "U", "P", "R", "O", "F", "E",
                                          "N", "O">>),
               Producto |-> Str(<<"I", "B", "U", "P", "I", "R", "A", "C">>),
               Titular |-> Str(<<"P", "F", "I", "Z", "E", "R">>),
               Estado |-> NaN,
               Vigencia |-> Str(<<"V", "I", "G", "E", "N", "T", "E">>)],
              [Principio_Activo |-> NaN,
               Producto |-> Str(<<"K", "I", "T", "A", "D", "O", "L">>),
               Titular |-> Str(<<"L", "A", "B", "O", "R", "A", "T", "O", "R", "I",
                                 "O", " ", "C", "H", "I", "L", "E">>),
               Estado |-> Str(<<"E", "q", "u", "i", "v", "a", "l", "e", "n", "t",
                                "e", " ", "T", "e", "r", "a", "p", "e", "u", "t",
                                "i", "c", "o">>),
               Vigencia |-> Str(<<"V", "I", "G", "E", "N", "T", "E">>)]>>
        rows == SelectSeq(df_isp, LAMBDA r : r.Principio_Activo # NaN)
        \* dropna().unique(): the first row of each principle
        unique_principles ==
            SelectSeq([k \in 1..Len(rows) |->
                          IF \E j \in 1..(k - 1) :
                                 rows[j].Principio_Activo
                                     = rows[k].Principio_Activo
                          THEN NaN
                          ELSE rows[k].Principio_Activo],
                      LAMBDA p : p # NaN)
        bio_map ==
            SelectSeq(rows, LAMBDA r :
                Contains(upper(r.Estado.val), <<"E", "Q", "U", "I", "V", "A",
                                                "L", "E", "N", "T", "E">>))
        norm_name == normalize_text(product.name)
        norm_lab == normalize_text(IF product.laboratory = None
                                   THEN Str(<<>>)
                                   ELSE product.laboratory)
        found == {k \in 1..Len(unique_principles) :
                     /\ Len(normalize_text(unique_principles[k])) >= 3
                     /\ Contains(norm_name,
                                 normalize_text(unique_principles[k]))}
        detected_dci ==
            IF found = {} THEN <<>> ELSE <<unique_principles[Min(found)]>>
        similar(a, b) ==
            LET s == ratio(a, b)
            IN  s.num * 100 > SimilarThreshold * s.den
    IN  [detected_dci |-> detected_dci,
         is_bioequivalent |->
             /\ detected_dci # <<>>
             /\ \E k \in 1..Len(bio_map) :
                    /\ normalize_text(bio_map[k].Principio_Activo)
                           = normalize_text(detected_dci[1])
                    /\ \/ similar(norm_lab, normalize_text(bio_map[k].Titular))
                       \/ similar(norm_name,
                                  normalize_text(bio_map[k].Producto))
                    /\ ~Contains(upper(bio_map[k].Vigencia.val),
                                 <<"N", "O">>)]

\* main, 'UPDATE DB' for the next product; executed tells whether
\* cur.execute returned or raised
UpdateProduct(executed) ==
    /\ entry = "smart_match"
    /\ recon.processed < Len(recon.products)
    /\ \E found \in {Reconcile(recon.products[recon.processed + 1])} :
           IF found.detected_dci = <<>> /\ ~found.is_bioequivalent
           THEN recon' = [recon EXCEPT !.processed = @ + 1]
           ELSE IF executed
           THEN recon' =
                    [recon EXCEPT
                        !.processed = @ + 1,
                        !.transaction =
                            Append(@, [id |-> recon.processed + 1,
                                       dci |-> found.detected_dci,
                                       is_bioequivalent |->
                                           found.is_bioequivalent]),
                        !.updates_dci =
                            IF found.detected_dci # <<>> THEN @ + 1 ELSE @,
                        !.updates_bio =
                            IF found.is_bioequivalent THEN @ + 1 ELSE @]
           ELSE recon' = [recon EXCEPT !.processed = @ + 1,
                                       !.transaction = <<>>]
    /\ UNCHANGED <<dump, parserVars, normVars, engineVars, apiVars,
                   classifyVars, pipelineVars, entry>>

\* main after the loop: conn.commit() and the report
CommitReport ==
    /\ entry = "smart_match"
    /\ recon.processed = Len(recon.products)
    /\ recon.reported = <<>>
    /\ recon' = [recon EXCEPT
                    !.committed = recon.transaction,
                    !.transaction = <<>>,
                    !.reported = <<[Updated_DCI |-> recon.updates_dci,
                                    Flagged_Bioequivalents |->
                                        recon.updates_bio]>>]
    /\ UNCHANGED <<dump, parserVars, normVars, engineVars, apiVars,
                   classifyVars, pipelineVars, entry>>

\* Most rows in the table products
MaxProducts == 2

\* Rows of products: name and laboratory
ProductRows ==
    {[name |-> Str(<<"P", "a", "r", "a", "c", "e", "t", "a", "m", "o", "l",
                     " ", "5", "0", "0", " ", "m", "g">>),
      laboratory |-> Str(<<"L", "A", "B", "O", "R", "A", "T", "O", "R", "I",
                           "O", " ", "C", "H", "I", "L", "E">>)],
     [name |-> Str(<<"I", "B", "U", "P", "R", "O", "F", "E", "N", "O", " ",
                     "4", "0", "0">>),
      laboratory |-> None],
     [name |-> Str(<<"A", "S", "P", "I", "R", "I", "N", "A">>),
      laboratory |-> Str(<<"B", "A", "Y", "E", "R">>)]}

(***************************************************************************)
(* Specifications                                                          *)
(***************************************************************************)
InitParse ==
    /\ \E c \in ParseCases : product_name = c.name /\ form = c.form
    /\ resultado = <<>>
    /\ reparsed = <<>>
    /\ NormIdle
    /\ EngineIdle
    /\ ApiIdle
    /\ ClassifyIdle
    /\ PipelineIdle
    /\ dump = NoDump
    /\ recon = NoRecon
    /\ entry = "none"

NextParse == Parse \/ Reparse

SpecParse == InitParse /\ [][NextParse]_vars

InitNorm ==
    /\ raw_text \in NormInputs
    /\ normalized = <<>>
    /\ renormalized = <<>>
    /\ ParserIdle
    /\ EngineIdle
    /\ ApiIdle
    /\ ClassifyIdle
    /\ PipelineIdle
    /\ dump = NoDump
    /\ recon = NoRecon
    /\ entry = "none"

NextNorm == Normalize \/ Renormalize

SpecNorm == InitNorm /\ [][NextNorm]_vars

\* motor_busqueda.py after the engine's construction, with some inventory and
\* nothing searched, or the API over some table and nothing asked
InitSearch ==
    /\ \/ /\ entry = "motor_busqueda"
          /\ df \in UNION {Frames(n) : n \in 0..MaxRows}
          /\ inventario_local = <<>>
       \/ /\ entry = "api"
          /\ df = <<>>
          /\ inventario_local \in UNION {Tables(n) : n \in 0..MaxRows}
    /\ search = NoSearch
    /\ response = <<>>
    /\ ParserIdle
    /\ NormIdle
    /\ ClassifyIdle
    /\ PipelineIdle
    /\ dump = NoDump
    /\ recon = NoRecon

NextSearch ==
    \/ \E q \in Queries : Buscar(q)
    \/ \E product_id \in 1..(MaxRows + 1) : GetAlternatives(product_id)

SpecSearch == InitSearch /\ [][NextSearch]_vars

\* The rows of the CSV file, one at a time, with and without rapidfuzz
InitClassify ==
    /\ entry = "data_manager"
    /\ FUZZY_AVAILABLE \in BOOLEAN
    /\ raw_row \in [Producto : Productos, Precio_Venta : PrecioVentaCells]
    /\ parsed_row = <<>>
    /\ extracted = <<>>
    /\ best_match = <<>>
    /\ enriched = <<>>
    /\ ParserIdle
    /\ NormIdle
    /\ EngineIdle
    /\ ApiIdle
    /\ files = {DATA_PATH}
    /\ loader = NotCalled
    /\ MigrationIdle
    /\ dump = NoDump
    /\ recon = NoRecon

NextClassify == ProcessDataframe \/ EnrichCompliance

SpecClassify == InitClassify /\ [][NextClassify]_vars

\* The loaders: pipeline.py run as a program after init_db() returned a fresh
\* data base, or DataManager.load_data() called on a path
InitLoad ==
    /\ FUZZY_AVAILABLE \in BOOLEAN
    /\ \/ /\ entry = "pipeline"
          /\ files \in SUBSET {CENABAST_FILE, GOLAN_FILE}
          /\ cenabast \in IF CENABAST_FILE \in files
                          THEN UNION {[1..k -> CenabastCells] :
                                         k \in 0..MaxMaestro}
                          ELSE {<<>>}
          /\ golan \in IF GOLAN_FILE \in files
                       THEN [columns : ColumnSets,
                             rows : UNION {[1..k -> GolanRows] :
                                              k \in 0..MaxGolan}]
                       ELSE {NoSheet}
          /\ pc = "load_maestro"
          /\ raw_row = NoRow
       \/ /\ entry = "data_manager"
          /\ files \in SUBSET {DATA_PATH}
          /\ raw_row \in IF DATA_PATH \in files
                         THEN [Producto : Productos,
                               Precio_Venta : PrecioVentaCells]
                         ELSE {NoRow}
          /\ cenabast = <<>>
          /\ golan = NoSheet
          /\ pc = "none"
    /\ catalogo_maestro = <<>>
    /\ records_to_insert = <<>>
    /\ match_log = <<>>
    /\ loader = NotCalled
    /\ parsed_row = <<>>
    /\ extracted = <<>>
    /\ best_match = <<>>
    /\ enriched = <<>>
    /\ ParserIdle
    /\ NormIdle
    /\ EngineIdle
    /\ ApiIdle
    /\ dump = NoDump
    /\ recon = NoRecon

NextLoad ==
    \/ LoadMaestro
    \/ \E matches \in LinkerMatches(catalogo_maestro, FUZZY_AVAILABLE,
                                     Len(golan.rows)) :
           LoadInventario(matches)
    \/ Close
    \/ LoadDataNoFile
    \/ ProcessDataframe
    \/ EnrichCompliance

SpecLoad == InitLoad /\ [][NextLoad]_vars

\* The scripts: fix_dump.py run on a dump, or smart_match.py run on the
\* products of the data base
InitScripts ==
    /\ \/ /\ entry = "fix_dump"
          /\ dump \in {[NoDump EXCEPT !.fin = lines] :
                          lines \in UNION {[1..n -> DumpLines] :
                                              n \in 0..MaxDump}}
          /\ recon = NoRecon
       \/ /\ entry = "smart_match"
          /\ dump = NoDump
          /\ recon \in {[NoRecon EXCEPT !.products = rows] :
                           rows \in UNION {[1..n -> ProductRows] :
                                              n \in 0..MaxProducts}}
    /\ ParserIdle
    /\ NormIdle
    /\ EngineIdle
    /\ ApiIdle
    /\ ClassifyIdle
    /\ PipelineIdle

NextScripts ==
    \/ ProcessLine
    \/ \E executed \in BOOLEAN : UpdateProduct(executed)
    \/ CommitReport

SpecScripts == InitScripts /\ [][NextScripts]_vars

(***************************************************************************)
(* DrugParser.parse: properties                                            *)
(***************************************************************************)
NothingExtracted(r) ==
    /\ r.dose_val = None
    /\ r.dose_unit = None
    /\ r.qty_val = None
    /\ r.qty_unit = None
    /\ r.lab = NO_IDENTIFICADO

\* A field parse extracts is a str that is not empty, or None
Extracted(v) == v = None \/ (v.type = "str" /\ Len(v.val) > 0)

\* C5: parse returns a dict for every input, never an exception: it has
\* every key, each extracted field is None or a non-empty str, and for an
\* input that is no str or is the empty str the four extracted fields are
\* None and lab is "NO IDENTIFICADO".
ParseNeverFails ==
    Len(resultado) = 1 =>
        /\ ParseKeys \subseteq DOMAIN resultado[1]
        /\ Extracted(resultado[1].dose_val)
        /\ Extracted(resultado[1].dose_unit)
        /\ Extracted(resultado[1].qty_val)
        /\ Extracted(resultado[1].qty_unit)
        /\ (product_name.type # "str" \/ product_name.val = <<>>)
               => NothingExtracted(resultado[1])

\* parse has returned for an input that is no str
ParsedNonString ==
    /\ Len(resultado) = 1
    /\ product_name.type # "str"
    /\ resultado[1].clean_name = product_name.val

\* C6: for an input '<NAME> <n><dose-unit> [X]<m><container-unit> LAB[.] <L>'
\* parse returns dose_val = n, dose_unit = the dose unit, qty_val = m,
\* qty_unit = the container unit, lab = L and clean_name = NAME.
FormFieldsExtracted ==
    (Len(resultado) = 1 /\ Len(form) = 1) =>
        /\ resultado[1].dose_val = Str(form[1].n)
        /\ resultado[1].dose_unit = Str(form[1].dose_unit)
        /\ resultado[1].qty_val = Str(form[1].m)
        /\ resultado[1].qty_unit = Str(form[1].qty_unit)
        /\ resultado[1].lab = form[1].lab
        /\ resultado[1].clean_name = form[1].name

\* C7: clean_name contains none of the texts parse matched and consumed as
\* the lab span, the dose match or the quantity match.
CleanNameFreeOfConsumed ==
    Len(resultado) = 1 =>
        \A k \in 1..Len(ConsumedSpans(product_name)) :
            ~Contains(resultado[1].clean_name, ConsumedSpans(product_name)[k])

\* C8: parse(parse(s).clean_name) returns the same clean_name and extracts
\* nothing further.
ReparseFixedPoint ==
    Len(reparsed) = 1 =>
        /\ reparsed[1].clean_name = resultado[1].clean_name
        /\ NothingExtracted(reparsed[1])

\* C19: parse removes from the name only what its steps match: the one lab
\* span, the first dose match, the one quantity match and the residual
\* X<digits>; every other character of the upper-cased, trimmed name is in
\* clean_name, in order, up to the collapse and trim of white space. A later
\* token that holds the text of the dose or of the quantity stays whole.
OnlyMatchedSpansRemoved ==
    (Len(resultado) = 1 /\ product_name.type = "str") =>
        LET Cut(text, m, new) ==
                IF m.found
                THEN SubSeq(text, 1, m.start - 1) \o new
                         \o SubSeq(text, m.end, Len(text))
                ELSE text
            text_bruto == strip(upper(product_name.val))
            no_lab  == Cut(text_bruto, REGEX_LAB(text_bruto), <<>>)
            no_dose == Cut(no_lab, REGEX_DOSIS(no_lab), <<" ">>)
            no_qty  == Cut(no_dose, REGEX_CANTIDAD(no_dose), <<" ">>)
        IN  resultado[1].clean_name = CleanUp(no_qty)

(***************************************************************************)
(* normalize_text: properties                                              *)
(***************************************************************************)
\* C9: normalize_text(normalize_text(x)) = normalize_text(x) for every x.
NormalizeIdempotent ==
    Len(renormalized) = 1 => renormalized[1] = normalized[1]

(***************************************************************************)
(* buscar and get_alternatives: properties                                 *)
(***************************************************************************)
Rendered == search.outcome = "rendered"

\* C1: the result list buscar renders is ordered by rank first, and by price
\* among rows of equal rank: no row of a higher rank number stands before a
\* row of a lower one whatever their prices.  It holds the candidates, each
\* once, and the table is printed in that order.
RankOrdering ==
    Rendered =>
        /\ \A i, j \in 1..Len(search.sorted_results) :
               i < j =>
                   \/ search.sorted_results[i].Rank
                          < search.sorted_results[j].Rank
                   \/ /\ search.sorted_results[i].Rank
                             = search.sorted_results[j].Rank
                      /\ search.sorted_results[i].Precio_Venta
                             <= search.sorted_results[j].Precio_Venta
        /\ Len(search.sorted_results) = Len(search.alternatives)
        /\ \A k \in 1..Len(search.alternatives) :
               Cardinality({i \in 1..Len(search.sorted_results) :
                   search.sorted_results[i].index
                       = search.alternatives[k].index}) = 1
        /\ Len(search.lines) = Len(search.sorted_results)
        /\ \A k \in 1..Len(search.lines) :
               search.lines[k].index = search.sorted_results[k].index

\* A row of a better rank is listed before a cheaper row of a worse rank
DearerBetterRankFirst ==
    /\ Rendered
    /\ \E i, j \in 1..Len(search.sorted_results) :
           /\ i < j
           /\ search.sorted_results[i].Rank < search.sorted_results[j].Rank
           /\ search.sorted_results[i].Precio_Venta
                  > search.sorted_results[j].Precio_Venta

\* C2: every candidate has one rank in 1..4: 1 iff generic and
\* bioequivalent, 2 iff bioequivalent and not generic, 3 iff not
\* bioequivalent and the upper-cased, trimmed query is in its clean name,
\* 4 otherwise.
RankAssignment ==
    Rendered =>
        \A k \in 1..Len(search.sorted_results) :
            LET r == search.sorted_results[k]
                requested == Contains(r.clean_name, strip(upper(search.typed)))
            IN  /\ r.Rank \in 1..4
                /\ r.Rank = 1 <=> (r.Is_Generic /\ r.Is_Bioequivalent)
                /\ r.Rank = 2 <=> (r.Is_Bioequivalent /\ ~r.Is_Generic)
                /\ r.Rank = 3 <=> (~r.Is_Bioequivalent /\ requested)
                /\ r.Rank = 4 <=> (~r.Is_Bioequivalent /\ ~requested)

\* The requested product and another product of its ingredient are listed,
\* neither bioequivalent
RequestedAndOther ==
    /\ Rendered
    /\ \E i, j \in 1..Len(search.sorted_results) :
           /\ search.sorted_results[i].Rank = 3
           /\ search.sorted_results[j].Rank = 4

Max0(x) == IF x > 0 THEN x ELSE 0

\* C3: only a rank-1 row shows a saving, and a saving shown is not negative:
\* it is max(0, reference price - price).  Every alternative of
\* get_alternatives has savings = max(0, base price - price) >= 0.
SavingsOnlyRank1NonNegative ==
    /\ Rendered =>
           \A k \in 1..Len(search.lines) :
               search.lines[k].ahorro # <<>> =>
                   /\ search.sorted_results[k].Rank = 1
                   /\ search.lines[k].ahorro[1] >= 0
                   /\ search.lines[k].ahorro[1]
                          = Max0(search.ref_price[1]
                                     - search.sorted_results[k].Precio_Venta)
    /\ Len(response) = 1 =>
           \A k \in 1..Len(response[1].alternatives) :
               /\ response[1].alternatives[k].savings >= 0
               /\ response[1].alternatives[k].savings
                      = Max0(inventario_local[response[1].product_id].precio
                                 - response[1].alternatives[k].precio)

\* A rank-1 row shows a saving beside a dearer row of another rank that
\* shows none
SavingShown ==
    /\ Rendered
    /\ \E i, j \in 1..Len(search.lines) :
           /\ search.lines[i].ahorro # <<>>
           /\ search.sorted_results[j].Rank # 1
           /\ search.lines[j].ahorro = <<>>
           /\ search.lines[j].precio > search.lines[i].precio

\* C4: the reference price is the price of the first row of the sorted
\* results whose clean name contains the query, and the price of the first
\* row of the sorted results when no clean name contains it.
ReferencePriceRule ==
    Rendered =>
        LET hits == {k \in 1..Len(search.sorted_results) :
                        Contains(search.sorted_results[k].clean_name,
                                 search.query)}
        IN  search.ref_price =
                <<search.sorted_results[IF hits = {} THEN 1 ELSE Min(hits)]
                      .Precio_Venta>>

\* The rows of df whose clean name the query, upper-cased and trimmed, matches
MatchedRows ==
    SelectSeq(df, LAMBDA r :
        StrContains(upper(r.clean_name), strip(upper(search.typed))))

\* C16: the candidates buscar ranks are, when the first row that matches the
\* query has a resolved active ingredient, exactly the rows of df with that
\* ingredient and Stock > 0, so that no row without stock is ranked; and
\* when its ingredient is "DESCONOCIDO", exactly the rows that match the
\* query.
CandidateSet ==
    search.outcome \in {"rendered", "raised"} =>
        /\ MatchedRows # <<>>
        /\ LET first == MatchedRows[1]
           IN  IF first.Active_Ingredient # DESCONOCIDO
               THEN /\ search.alternatives =
                           SelectSeq(df, LAMBDA r :
                               /\ r.Active_Ingredient = first.Active_Ingredient
                               /\ r.Stock > 0)
                    /\ \A k \in 1..Len(search.alternatives) :
                           search.alternatives[k].Stock > 0
                    /\ \A k \in 1..Len(search.sorted_results) :
                           search.sorted_results[k].Stock > 0
               ELSE search.alternatives = MatchedRows

\* A row of the resolved ingredient that is out of stock is left out of the
\* candidates that are ranked
OutOfStockLeftOut ==
    /\ Rendered
    /\ MatchedRows[1].Active_Ingredient # DESCONOCIDO
    /\ \E k \in 1..Len(df) :
           /\ df[k].Active_Ingredient = MatchedRows[1].Active_Ingredient
           /\ df[k].Stock = 0
           /\ \A i \in 1..Len(search.sorted_results) :
                  search.sorted_results[i].index # df[k].index

\* C17: a search with an empty or blank query ends in the outcome 'no match
\* found': no candidate, nothing ranked, no error.
EmptyQueryNoMatch ==
    (search.outcome # "idle" /\ strip(search.typed) = <<>>) =>
        /\ search.outcome = "no_match"
        /\ search.alternatives = <<>>
        /\ search.sorted_results = <<>>

\* C20: buscar completes without raising for every query that matches a row:
\* also when no row of the resolved ingredient has Stock > 0, and it then
\* renders an empty result list.
BuscarCompletes ==
    (search.outcome # "idle" /\ MatchedRows # <<>>) =>
        /\ search.outcome = "rendered"
        /\ Len(search.lines) = Len(search.alternatives)

(***************************************************************************)
(* _enrich_compliance: properties                                          *)
(***************************************************************************)
\* C10: when _enrich_compliance resolves no active ingredient the row it
\* returns has Active_Ingredient = "DESCONOCIDO", Is_Generic = false and
\* Is_Bioequivalent = false, and no row with Active_Ingredient =
\* "DESCONOCIDO" is flagged generic or bioequivalent.
UnknownIngredientUnflagged ==
    Len(enriched) = 1 =>
        /\ best_match = <<>> =>
               /\ enriched[1].Active_Ingredient = DESCONOCIDO
               /\ ~enriched[1].Is_Generic
               /\ ~enriched[1].Is_Bioequivalent
        /\ enriched[1].Active_Ingredient = DESCONOCIDO =>
               /\ ~enriched[1].Is_Generic
               /\ ~enriched[1].Is_Bioequivalent

\* No ingredient was resolved for a product whose name holds a brand of the
\* registry
UnresolvedBrand ==
    /\ Len(enriched) = 1
    /\ best_match = <<>>
    /\ enriched[1].Active_Ingredient = DESCONOCIDO
    /\ \E i \in 1..Len(isp_db_mock) :
           BrandIn(isp_db_mock[i], EnrichName(parsed_row[1]))

\* C11: in every row _enrich_compliance returns, Is_Generic implies
\* Is_Bioequivalent, and Is_Generic holds only if the product name contains
\* the name of the resolved active ingredient and does not contain
\* "COMPUESTO".
GenericImpliesBioequivalent ==
    (Len(enriched) = 1 /\ enriched[1].Is_Generic) =>
        /\ enriched[1].Is_Bioequivalent
        /\ Contains(EnrichName(parsed_row[1]), enriched[1].Active_Ingredient)
        /\ ~Contains(EnrichName(parsed_row[1]), COMPUESTO)

\* A product was flagged generic
GenericDetected ==
    /\ Len(enriched) = 1
    /\ enriched[1].Is_Generic
    /\ enriched[1].Active_Ingredient # DESCONOCIDO

\* C12: when an ingredient is resolved and the product name contains a brand
\* of that ingredient, the row has Is_Bioequivalent = true and Is_Generic =
\* false, also when the generic detection succeeded for the product.
BrandForcesNotGeneric ==
    (/\ Len(enriched) = 1
     /\ best_match # <<>>
     /\ BrandIn(Data(best_match[1]), EnrichName(parsed_row[1]))) =>
        /\ enriched[1].Is_Bioequivalent
        /\ ~enriched[1].Is_Generic
        /\ enriched[1].Active_Ingredient
               = Data(best_match[1]).active_ingredient

\* The name holds a brand of the resolved ingredient and begins with the
\* ingredient's name, which the generic detection accepts without rapidfuzz
BrandOverGeneric ==
    /\ Len(enriched) = 1
    /\ ~FUZZY_AVAILABLE
    /\ best_match # <<>>
    /\ BrandIn(Data(best_match[1]), EnrichName(parsed_row[1]))
    /\ StartsWith(EnrichName(parsed_row[1]), 1,
                  Data(best_match[1]).active_ingredient)
    /\ ~Contains(EnrichName(parsed_row[1]), COMPUESTO)
    /\ ~enriched[1].Is_Generic

\* C13: when no registry key matches the product name directly and the
\* name contains a brand of the registry, the product is resolved to the
\* ingredient of that brand, with rapidfuzz and without it.
BrandResolvesIngredient ==
    LET name == EnrichName(parsed_row[1])
        direct == IF FUZZY_AVAILABLE
                  THEN extracted[1].score > MatchThreshold
                  ELSE KeyLookup(name) # <<>>
    IN  (Len(enriched) = 1 /\ ~direct /\ BrandLookup(name) # <<>>) =>
            /\ enriched[1].Active_Ingredient # DESCONOCIDO
            /\ enriched[1].Active_Ingredient
                   = Data(BrandLookup(name)[1]).active_ingredient

\* C14: _calculate_ppum never raises; it returns round(price / quantity, 2)
\* when the price and the quantity are numbers and the quantity is > 0, and
\* 0 in every other case: a quantity <= 0, a price or a quantity that is
\* missing or is no number.
PpumFailsSoftly ==
    Len(enriched) = 1 =>
        LET price == FloatOfStr(replace(parsed_row[1].Precio_Venta.val,
                                        <<",">>, <<".">>))
            qty == float(parsed_row[1].qty_val)
        IN  enriched[1].Calculated_PPUM =
                IF /\ price.kind = "number"
                   /\ qty.kind = "number"
                   /\ qty.num > 0
                THEN Hundredths(Round2(price, qty))
                ELSE Hundredths(0)

(***************************************************************************)
(* The loaders: properties                                                 *)
(***************************************************************************)
\* C15: load_inventario links a record to the catalogue exactly, then
\* approximately: a clean name that is a key of the catalogue is linked to
\* that key and nothing is scored; any other clean name is linked to the
\* top-scoring key, and only when that score strictly exceeds the threshold
\* (85 for the token-set score, 0.8 for the fallback ratio); the record is
\* unlinked (maestro_id None) when no score exceeds the threshold or the
\* catalogue is empty.
ExactThenApproximate ==
    \A k \in 1..Len(records_to_insert) :
        LET clean_name ==
                parse(Str(records_to_insert[k].nombre_comercial)).clean_name
            maestro_id == records_to_insert[k].maestro_id
            keys == 1..Len(catalogo_maestro)
            score(i) == ratio(catalogo_maestro[i], clean_name)
            exceeds(i) == score(i).num * 100 > Cutoff * score(i).den
            top(i) == \A j \in keys :
                          score(i).num * score(j).den
                              >= score(j).num * score(i).den
        IN  IF \E i \in keys : catalogo_maestro[i] = clean_name
            THEN /\ maestro_id # <<>>
                 /\ catalogo_maestro[maestro_id[1]] = clean_name
                 /\ match_log[k] = <<>>
            ELSE IF keys = {} THEN maestro_id = <<>>
            ELSE IF FUZZY_AVAILABLE
            THEN /\ match_log[k] # <<>>
                 /\ IF match_log[k][1].score > LinkThreshold
                    THEN /\ maestro_id # <<>>
                         /\ catalogo_maestro[maestro_id[1]]
                                = match_log[k][1].key
                    ELSE maestro_id = <<>>
            ELSE IF \E i \in keys : exceeds(i)
            THEN /\ maestro_id # <<>>
                 /\ top(maestro_id[1])
            ELSE maestro_id = <<>>

\* C18: a loader whose input file is missing ends in an explicit failure that
\* reaches its caller, for load_data, load_maestro and load_inventario alike:
\* it never returns normally, so the migration never goes on to its next
\* call or to its completion message after a file was missing.
MissingFileFails ==
    /\ LET InputFile == [l \in Loaders |->
                            IF l = "load_data" THEN DATA_PATH
                            ELSE IF l = "load_maestro" THEN CENABAST_FILE
                            ELSE GOLAN_FILE]
       IN  \A l \in Loaders :
               (loader[l] # "pending" /\ InputFile[l] \notin files) =>
                   loader[l] = "raised"
    /\ pc \in {"load_inventario", "close", "done"} => CENABAST_FILE \in files
    /\ pc \in {"close", "done"} => GOLAN_FILE \in files

(***************************************************************************)
(* process_dump and smart_match.main: properties                           *)
(***************************************************************************)
\* C21: process_dump drops exactly the lines it targets: the lines of each
\* chunk CREATE TABLE statement, from its first line through the first line
\* of the statement that ends in ';', on one line or on several; the ALTER,
\* CREATE, DROP and COMMENT lines that name _timescaledb_internal; the lines
\* that create the timescaledb extension. Every other line read is in the
\* output, in the order of the input, unchanged unless it is a COPY header
\* that was rewritten.
DropsExactlyTargeted ==
    entry = "fix_dump" =>
        LET lines == SubSeq(dump.fin, 1, dump.read)
            ends(l) == strip(l) # <<>> /\ strip(l)[Len(strip(l))] = ";"
            RECURSIVE Kept(_, _)
            Kept(k, inside) ==
                IF k > Len(lines) THEN <<>>
                ELSE IF table_create_regex(lines[k]) # <<>> \/ inside
                THEN Kept(k + 1, ~ends(lines[k]))
                ELSE IF /\ copy_regex(lines[k]) = <<>>
                        /\ \/ skip_regex(lines[k])
                           \/ Contains(lines[k], <<"C", "R", "E", "A", "T",
                                                   "E", " ", "E", "X", "T",
                                                   "E", "N", "S", "I", "O",
                                                   "N", " ", "I", "F", " ",
                                                   "N", "O", "T", " ", "E",
                                                   "X", "I", "S", "T", "S",
                                                   " ", "t", "i", "m", "e",
                                                   "s", "c", "a", "l", "e",
                                                   "d", "b">>)
                THEN Kept(k + 1, FALSE)
                ELSE <<lines[k]>> \o Kept(k + 1, FALSE)
            kept == Kept(1, FALSE)
        IN  /\ Len(dump.fout) = Len(kept)
            /\ \A k \in 1..Len(kept) :
                   \/ dump.fout[k] = kept[k]
                   \/ /\ copy_regex(kept[k]) # <<>>
                      /\ StartsWith(dump.fout[k], 1, <<"C", "O", "P", "Y",
                                                       " ">>)

\* C22: no COPY header that targets a chunk of _timescaledb_internal is in
\* the output, whatever the lines of the dump: each such header read outside
\* a chunk CREATE TABLE statement is written as 'COPY <parent> (cols) FROM
\* stdin;' with its own column list, the parent being the table of the
\* INHERITS clause of the statement that created the chunk.
ChunkCopiesRewritten ==
    entry = "fix_dump" =>
        LET lines == SubSeq(dump.fin, 1, dump.read)
            ends(l) == strip(l) # <<>> /\ strip(l)[Len(strip(l))] = ";"
            RECURSIVE Headers(_, _, _)
            \* chunk is <<>> outside a statement, parents maps the chunks
            \* created so far to the table they inherit
            Headers(k, chunk, parents) ==
                IF k > Len(lines) THEN <<>>
                ELSE LET l == lines[k]
                         now == IF table_create_regex(l) # <<>>
                                THEN table_create_regex(l)
                                ELSE chunk
                         known == IF now # <<>> /\ inherits_regex(l) # <<>>
                                  THEN (now[1] :> inherits_regex(l)[1])
                                           @@ parents
                                  ELSE parents
                     IN  IF now # <<>>
                         THEN Headers(k + 1, IF ends(l) THEN <<>> ELSE now,
                                      known)
                         ELSE IF /\ copy_regex(l) # <<>>
                                 /\ copy_regex(l)[1].chunk_name
                                        \in DOMAIN parents
                         THEN <<<<"C", "O", "P", "Y", " ">>
                                  \o parents[copy_regex(l)[1].chunk_name]
                                  \o <<" ", "(">> \o copy_regex(l)[1].cols
                                  \o <<")", " ", "F", "R", "O", "M", " ",
                                       "s", "t", "d", "i", "n", ";", "\n">>>>
                                  \o Headers(k + 1, <<>>, parents)
                         ELSE Headers(k + 1, <<>>, parents)
        IN  /\ \A k \in 1..Len(dump.fout) : copy_regex(dump.fout[k]) = <<>>
            /\ SelectSeq(dump.fout,
                         LAMBDA l : StartsWith(l, 1, <<"C", "O", "P", "Y",
                                                       " ">>))
                   = Headers(1, <<>>, <<>>)

\* C23: at the end of the reconciliation run the counts reported are what was
\* committed, whichever updates succeeded and failed: 'Updated DCI' is the
\* number of products whose dci update is in the committed transaction,
\* 'Flagged Bioequivalents' the number whose is_bioequivalent update is.
ReportedEqualsCommitted ==
    (entry = "smart_match" /\ recon.reported # <<>>) =>
        /\ recon.reported[1].Updated_DCI =
               Cardinality({k \in 1..Len(recon.committed) :
                               recon.committed[k].dci # <<>>})
        /\ recon.reported[1].Flagged_Bioequivalents =
               Cardinality({k \in 1..Len(recon.committed) :
                               recon.committed[k].is_bioequivalent})

=============================================================================
